---- MODULE Spec2Model ----
(***************************************************************************)
(* Model of the estimation layer of the ship planning service: the three   *)
(* lazily initialised estimators (RouteOptimizer, FuelPredictor,           *)
(* MaintenanceForecaster), their feedback buffers, and the controllers     *)
(* that drive them.                                                        *)
(*                                                                         *)
(* Node.js runs one handler at a time; a handler gives up control only at  *)
(* an await on real asynchronous work (model.fit, a database call).  An    *)
(* action of this model is therefore the code between two such awaits.     *)
(* An await on an async function that itself never waits is a microtask    *)
(* hop: no new request can arrive during it.  Inside initializeModel (the  *)
(* data generators) the hop is folded into the action; in the feedback     *)
(* operations (the retraining stubs) it is kept as a separate step, so     *)
(* that continuations of other requests may run in between.                *)
(***************************************************************************)
EXTENDS Integers, Sequences, FiniteSets, TLC

\* ------------------------------------------------------------------ bounds
NumCallers == 2      \* concurrent requests
MaxInits   == 2      \* initializeModel invocations per estimator
MaxCalls   == 3      \* estimator calls, over the three estimators
MaxFeedback == 101   \* entries in the one feedback buffer that grows long
MaxOther   == 1      \* entries in the other two feedback buffers
MaxPlans   == 3      \* planVoyage requests
MaxForecasts == 1    \* predictMaintenance loops followed to their end
RiskSamples == 2     \* sampled riskScore outputs of the maintenance model
DaySamples == 2      \* sampled daysUntilMaintenance outputs
Near == 1            \* helper inputs are sampled this far around each threshold
MaxTicks == 1        \* millisecond ticks of the clock during one synchronous loop
MaxObs == 3          \* weather observations in one forecast
DrawSamples == 2     \* sampled values of one Math.random() draw
MaxVoyages == 1      \* voyages planned while the fleet handlers are followed

Callers == 1..NumCallers

\* ------------------------------------------------------------- estimators
Estimators == {"route", "fuel", "maint"}

\* The model objects an estimator holds: this.model, and for the
\* maintenance forecaster also this.componentRiskModel ("risk").
Slots == {"route", "fuel", "maint", "risk"}

SlotsOf(e) == IF e = "maint" THEN <<"maint", "risk">> ELSE <<e>>

SlotSet(e) == {SlotsOf(e)[i] : i \in 1..Len(SlotsOf(e))}

ModelIds == 1..MaxInits

VARIABLES
  model,          \* [Slots -> 0..MaxInits]: the object in this.model (0 = null)
  training,       \* [Slots \X ModelIds -> "none"|"fresh"|"fitting"|"trained"|"aborted"]
  isModelLoaded,  \* [Estimators -> BOOLEAN]
  inits,          \* [Estimators -> Nat]: initializeModel invocations so far
  calls,          \* [Estimators -> Nat]: estimator calls so far
  call,           \* [Callers -> record]: the estimator call each caller is in
  buffer,         \* [Estimators -> Seq]: trainingData / historicalData /
                  \*   maintenanceHistory
  retrains,       \* [Estimators -> Nat]: invocations of the retraining routine
  fb,             \* [Callers -> record]: the feedback operation each caller is in
  ships,          \* [ShipIds -> status]: the Ship collection ("none" = no record)
  voyages,        \* Seq of records: the Voyage collection
  maintenance,    \* Seq of records: the Maintenance collection
  req,            \* [Callers -> record]: the request each caller is in
  plans,          \* planVoyage requests received so far
  fc,             \* [Callers -> record]: the predictMaintenance loop of a caller
  calc            \* record: one evaluation of a synchronous helper
                  \*   (function name, arguments, result)

estVars == <<model, training, isModelLoaded, inits, calls, call>>

fbVars == <<buffer, retrains, fb>>

dbVars == <<ships, voyages, maintenance>>

planVars == <<req, plans>>

vars == <<estVars, fbVars, dbVars, planVars, fc, calc>>

IdleCall == [pc |-> "idle", est |-> "none", ok |-> TRUE, slot |-> "none",
             id |-> 0, res |-> "none", err |-> "none", partial |-> FALSE,
             used |-> 0, inited |-> FALSE]

EstInit ==
  /\ model = [s \in Slots |-> 0]
  /\ training = [p \in Slots \X ModelIds |-> "none"]
  /\ isModelLoaded = [e \in Estimators |-> FALSE]
  /\ inits = [e \in Estimators |-> 0]
  /\ calls = [e \in Estimators |-> 0]
  /\ call = [c \in Callers |-> IdleCall]

IdleFb == [pc |-> "idle", est |-> "none", threw |-> FALSE, pushed |-> FALSE,
           res |-> "none"]

FbInit ==
  /\ buffer = [e \in Estimators |-> <<>>]
  /\ retrains = [e \in Estimators |-> 0]
  /\ fb = [c \in Callers |-> IdleFb]

\* The Ship collection holds one ship; no ship has the second id.
ShipIds == {1, 2}

DbInit ==
  /\ ships = [i \in ShipIds |-> IF i = 1 THEN "active" ELSE "none"]
  /\ voyages = <<>>
  /\ maintenance = <<>>

NoResp == [code |-> 0, success |-> FALSE, error |-> ""]

Resp400 == [code |-> 400, success |-> FALSE,
            error |-> "Missing required fields: shipId, origin, destination, departureTime, cargoLoad"]

Resp404 == [code |-> 404, success |-> FALSE, error |-> "Ship not found"]

Resp201 == [code |-> 201, success |-> TRUE, error |-> ""]

\* next(error): the error is handed to the application's error handler.
Forwarded == [code |-> 0, success |-> FALSE, error |-> "next(error)"]

IdleReq == [pc |-> "idle", body |-> "none", route |-> "none", fuel |-> "none",
            routeOut |-> "none", routeData |-> "none", saved |-> FALSE,
            resp |-> NoResp]

PlanInit ==
  /\ req = [c \in Callers |-> IdleReq]
  /\ plans = 0

IdleFc == [pc |-> "idle", i |-> 0, predictions |-> <<>>, forecast |-> <<>>]

FcInit == fc = [c \in Callers |-> IdleFc]

\* No helper is being evaluated on its own.
IdleCalc == [pc |-> "idle", fn |-> "none"]

CalcInit == calc = IdleCalc

\* A model is fully trained only once the fit() started on it has resolved.
PartialSeen(e, m, t) == \E s \in SlotSet(e) : t[<<s, m[s]>>] # "trained"

\* if (!this.isModelLoaded) await this.initializeModel();
NeedsInitAlways(e) == TRUE

NeedsInit(e) == ~isModelLoaded[e]

\* The body of the estimator call after the initialisation guard: the
\* features are computed from the arguments (a missing field throws before
\* the model is touched), then this.model.predict reads the shared model.
PredictRec(rec, e, m, t) ==
  [rec EXCEPT !.pc = "done",
              !.res = IF rec.ok THEN "ok" ELSE "rejected",
              !.err = IF rec.ok THEN "none" ELSE "input",
              !.partial = rec.ok /\ PartialSeen(e, m, t),
              !.used = IF rec.ok THEN m[SlotsOf(e)[1]] ELSE 0]

\* initializeModel up to its first real await: fresh model objects replace
\* this.model (and this.componentRiskModel), the training data is generated
\* and fit() is started on this.model.
BeginInit(c, e, okIn) ==
  /\ inits[e] < MaxInits
  /\ LET id == inits[e] + 1
         first == SlotsOf(e)[1]
     IN /\ model' = [s \in Slots |-> IF s \in SlotSet(e) THEN id ELSE model[s]]
        /\ training' = [p \in Slots \X ModelIds |->
                          IF p[2] = id /\ p[1] \in SlotSet(e)
                            THEN (IF p[1] = first THEN "fitting" ELSE "fresh")
                            ELSE training[p]]
        /\ inits' = [inits EXCEPT ![e] = id]
        /\ call' = [call EXCEPT ![c] =
                      [IdleCall EXCEPT !.pc = "fit", !.est = e, !.ok = okIn,
                                       !.slot = first, !.id = id,
                                       !.inited = TRUE]]
  /\ UNCHANGED isModelLoaded

\* Entry of optimizeRoute / predictFuelConsumption / predictMaintenance, up
\* to the first await or, with the model loaded, to the result.
EnterBody(c, e, okIn) ==
  /\ calls["route"] + calls["fuel"] + calls["maint"] < MaxCalls
  /\ calls' = [calls EXCEPT ![e] = @ + 1]
  /\ IF NeedsInit(e)
       THEN BeginInit(c, e, okIn)
       ELSE /\ call' = [call EXCEPT ![c] =
                  PredictRec([IdleCall EXCEPT !.est = e, !.ok = okIn],
                             e, model, training)]
            /\ UNCHANGED <<model, training, isModelLoaded, inits>>

CallEnter(c, e, okIn) ==
  /\ call[c].pc = "idle"
  /\ EnterBody(c, e, okIn)

\* tfjs refuses a second fit() on a model whose fit() is still running.
FitRefused(s, id) == training[<<s, id>>] = "fitting"

\* initializeModel's catch block logs and rethrows: the flag is not touched.
FlagAfterInitErrorLatched(e) == TRUE

FlagAfterInitError(e) == isModelLoaded[e]

\* The awaited fit() resolves.  For the maintenance forecaster trainModels
\* then starts fit() on whatever this.componentRiskModel holds now; for the
\* last model of the estimator initializeModel sets isModelLoaded and the
\* caller goes on to predict with whatever this.model holds now.
FitDone(c) ==
  /\ call[c].pc = "fit"
  /\ LET e == call[c].est
         s == call[c].slot
         t1 == [training EXCEPT ![<<s, call[c].id>>] = "trained"]
         last == SlotsOf(e)[Len(SlotsOf(e))]
     IN IF s = last
          THEN /\ isModelLoaded' = [isModelLoaded EXCEPT ![e] = TRUE]
               /\ training' = t1
               /\ call' = [call EXCEPT ![c] = PredictRec(call[c], e, model, t1)]
          ELSE LET id2 == model[last]
               IN IF FitRefused(last, id2)
                    THEN /\ training' = t1
                         /\ call' = [call EXCEPT ![c] =
                                [@ EXCEPT !.pc = "done", !.res = "rejected",
                                           !.err = "init"]]
                         /\ isModelLoaded' = [isModelLoaded EXCEPT
                                                ![e] = FlagAfterInitError(e)]
                    ELSE /\ training' = [t1 EXCEPT ![<<last, id2>>] = "fitting"]
                         /\ call' = [call EXCEPT ![c] =
                                [@ EXCEPT !.slot = last, !.id = id2]]
                         /\ UNCHANGED isModelLoaded
  /\ UNCHANGED <<model, inits, calls>>

\* The awaited fit() rejects: trainModel rethrows, initializeModel's catch
\* rethrows, and the estimator call rejects (its await sits outside its try).
FitFail(c) ==
  /\ call[c].pc = "fit"
  /\ training' = [training EXCEPT ![<<call[c].slot, call[c].id>>] = "aborted"]
  /\ isModelLoaded' = [isModelLoaded EXCEPT
                         ![call[c].est] = FlagAfterInitError(call[c].est)]
  /\ call' = [call EXCEPT ![c] =
                [@ EXCEPT !.pc = "done", !.res = "rejected", !.err = "init"]]
  /\ UNCHANGED <<model, inits, calls>>

\* The caller has its answer; it may call again.
Return(c) ==
  /\ call[c].pc = "done"
  /\ call' = [call EXCEPT ![c] = IdleCall]
  /\ UNCHANGED <<model, training, isModelLoaded, inits, calls>>

\* ------------------------------------------------- cold start, overlapping
Invoke(c) ==
  /\ \E e \in Estimators, okIn \in BOOLEAN : CallEnter(c, e, okIn)
  /\ UNCHANGED <<fbVars, dbVars, planVars, fc, calc>>

Init == EstInit /\ FbInit /\ DbInit /\ PlanInit /\ FcInit /\ CalcInit

Next ==
  \E c \in Callers :
    \/ Invoke(c)
    \/ FitDone(c) /\ UNCHANGED <<fbVars, dbVars, planVars, fc, calc>>
    \/ FitFail(c) /\ UNCHANGED <<fbVars, dbVars, planVars, fc, calc>>
    \/ Return(c) /\ UNCHANGED <<fbVars, dbVars, planVars, fc, calc>>

Spec == Init /\ [][Next]_vars

\* ----------------------------------------------- cold start, one at a time
\* The same estimators driven by calls that never overlap: a call is only
\* made when no other call is in progress.
SeqInvoke(c) ==
  /\ \A d \in Callers : call[d].pc = "idle"
  /\ Invoke(c)

NextSeq ==
  \E c \in Callers :
    \/ SeqInvoke(c)
    \/ FitDone(c) /\ UNCHANGED <<fbVars, dbVars, planVars, fc, calc>>
    \/ FitFail(c) /\ UNCHANGED <<fbVars, dbVars, planVars, fc, calc>>
    \/ Return(c) /\ UNCHANGED <<fbVars, dbVars, planVars, fc, calc>>

SpecSeq == Init /\ [][NextSeq]_vars

\* ---------------------------------------------------------------- feedback
\* updateModelWithFeedback, updateModelWithActualData and
\* updateWithMaintenanceData.
RouteBatch == 100

FuelBatch == 50

MaintBatch == 100

BatchSize(e) ==
  CASE e = "route" -> RouteBatch
    [] e = "fuel"  -> FuelBatch
    [] e = "maint" -> MaintBatch

\* if (this.trainingData.length % 100 === 0): n is the length after the push.
RetrainDueOffByOne(e, n) == n % BatchSize(e) = 1

RetrainDue(e, n) == n % BatchSize(e) = 0

\* What is read from the voyage before the push.  The route optimizer reads
\* plannedRoute, cargoLoad, optimizationMetrics, actualRoute and
\* fuelPrediction, the fuel predictor reads fuelPrediction; a record lacking
\* one of them throws a TypeError.  The maintenance forecaster only spreads
\* the record, which never throws.
ExtractThrows(e, good) == e # "maint" /\ ~good

\* this.trainingData.push(...): the entry is the n-th accepted submission.
PushedEvicting(buf) == IF Len(buf) >= 2 THEN Append(Tail(buf), Len(buf) + 1)
                       ELSE Append(buf, Len(buf) + 1)

Pushed(buf) == Append(buf, Len(buf) + 1)

\* retrainModel / retrainWithHistoricalData only log: the models and their
\* trained parameters are what they were.
RetrainedRefit(e, t) ==
  [p \in Slots \X ModelIds |->
     IF p[1] \in SlotSet(e) /\ p[2] = model[p[1]] THEN "fitting" ELSE t[p]]

Retrained(e, t) == t

\* The catch block of the three operations logs the error and returns.
OutcomeOnErrorRethrown(e) == "rejected"

OutcomeOnError(e) == "resolved"

\* Keeps the model finite: one buffer may grow to MaxFeedback entries, the
\* other two to MaxOther.
FeedbackBound(e) ==
  /\ Len(buffer[e]) < MaxFeedback
  /\ Len(buffer[e]) >= MaxOther =>
       \A e2 \in Estimators \ {e} : Len(buffer[e2]) <= MaxOther

\* The operation up to its first await (or to its end).
FeedbackEnter(c, e, good) ==
  /\ fb[c].pc = "idle"
  /\ FeedbackBound(e)
  /\ IF ExtractThrows(e, good)
       THEN /\ fb' = [fb EXCEPT ![c] =
                  [IdleFb EXCEPT !.pc = "done", !.est = e, !.threw = TRUE,
                                 !.res = OutcomeOnError(e)]]
            /\ UNCHANGED <<buffer, retrains, training>>
       ELSE LET buf == Pushed(buffer[e])
                due == RetrainDue(e, Len(buf))
            IN /\ buffer' = [buffer EXCEPT ![e] = buf]
               /\ retrains' = [retrains EXCEPT ![e] = IF due THEN @ + 1 ELSE @]
               /\ training' = IF due THEN Retrained(e, training) ELSE training
               /\ fb' = [fb EXCEPT ![c] =
                     [IdleFb EXCEPT !.pc = IF due THEN "retrain" ELSE "done",
                                    !.est = e, !.pushed = TRUE,
                                    !.res = IF due THEN "none" ELSE "resolved"]]
  /\ UNCHANGED <<model, isModelLoaded, inits, calls, call>>

\* The awaited retraining stub has resolved; the operation logs and returns.
FeedbackResume(c) ==
  /\ fb[c].pc = "retrain"
  /\ fb' = [fb EXCEPT ![c] = [@ EXCEPT !.pc = "done", !.res = "resolved"]]
  /\ UNCHANGED <<estVars, buffer, retrains>>

FeedbackReturn(c) ==
  /\ fb[c].pc = "done"
  /\ fb' = [fb EXCEPT ![c] = IdleFb]
  /\ UNCHANGED <<estVars, buffer, retrains>>

Feedback(c) == \E e \in Estimators, good \in BOOLEAN : FeedbackEnter(c, e, good)

\* Feedback arrives either before any estimator was used or after each has
\* completed its cold start.
LoadedInit ==
  /\ model = [s \in Slots |-> 1]
  /\ training = [p \in Slots \X ModelIds |-> IF p[2] = 1 THEN "trained" ELSE "none"]
  /\ isModelLoaded = [e \in Estimators |-> TRUE]
  /\ inits = [e \in Estimators |-> 1]
  /\ calls = [e \in Estimators |-> 1]
  /\ call = [c \in Callers |-> IdleCall]

InitFeedback ==
  (EstInit \/ LoadedInit) /\ FbInit /\ DbInit /\ PlanInit /\ FcInit /\ CalcInit

NextFeedback ==
  \E c \in Callers :
    \/ Feedback(c) /\ UNCHANGED <<dbVars, planVars, fc, calc>>
    \/ FeedbackResume(c) /\ UNCHANGED <<dbVars, planVars, fc, calc>>
    \/ FeedbackReturn(c) /\ UNCHANGED <<dbVars, planVars, fc, calc>>

SpecFeedback == InitFeedback /\ [][NextFeedback]_vars

\* -------------------------------------------------------------- planVoyage
\* A request body: shipId is 0 when absent; origin and destination are
\* absent, present without coordinates, or complete.
GoodBody == [shipId |-> 1, origin |-> "ok", destination |-> "ok",
             departureTime |-> TRUE, cargoLoad |-> TRUE]

PlanBodies ==
  { GoodBody,
    [GoodBody EXCEPT !.shipId = 0],
    [GoodBody EXCEPT !.shipId = 2],
    [GoodBody EXCEPT !.origin = "missing"],
    [GoodBody EXCEPT !.origin = "noCoords"],
    [GoodBody EXCEPT !.destination = "missing"],
    [GoodBody EXCEPT !.destination = "noCoords"],
    [GoodBody EXCEPT !.departureTime = FALSE],
    [GoodBody EXCEPT !.cargoLoad = FALSE] }

\* if (!shipId || !origin || !destination || !departureTime || !cargoLoad)
MissingRequiredNoOrigin(b) ==
  \/ b.shipId = 0
  \/ b.destination = "missing"
  \/ ~b.departureTime
  \/ ~b.cargoLoad

MissingRequired(b) ==
  \/ b.shipId = 0
  \/ b.origin = "missing"
  \/ b.destination = "missing"
  \/ ~b.departureTime
  \/ ~b.cargoLoad

\* optimizeRoute reads origin.coordinates.latitude and
\* destination.coordinates.latitude in calculateDistance.
RouteInputOk(b) == b.origin = "ok" /\ b.destination = "ok"

\* The handler up to its first await (Ship.findOne).
PlanStart(r, b) ==
  /\ req[r].pc = "idle"
  /\ call[r].pc = "idle"
  /\ plans < MaxPlans
  /\ plans' = plans + 1
  /\ req' = [req EXCEPT ![r] =
        IF MissingRequired(b)
          THEN [IdleReq EXCEPT !.pc = "sent", !.body = b,
                               !.resp = Resp400]
          ELSE [IdleReq EXCEPT !.pc = "findShip", !.body = b]]
  /\ UNCHANGED <<estVars, fbVars, dbVars, fc, calc>>

\* Ship.findOne has resolved: 404 for an unknown ship, otherwise the route
\* optimizer is called (cargoLoad.weight is read for its argument).
PlanShipLookup(r) ==
  /\ req[r].pc = "findShip"
  /\ LET b == req[r].body
     IN IF b.shipId \notin ShipIds \/ ships[b.shipId] = "none"
          THEN /\ req' = [req EXCEPT ![r] =
                     [@ EXCEPT !.pc = "sent", !.resp = Resp404]]
               /\ UNCHANGED estVars
          ELSE IF ~b.cargoLoad
            THEN /\ req' = [req EXCEPT ![r] =
                       [@ EXCEPT !.pc = "sent", !.resp = Forwarded]]
                 /\ UNCHANGED estVars
            ELSE /\ CallEnter(r, "route", RouteInputOk(b))
                 /\ req' = [req EXCEPT ![r] =
                       [@ EXCEPT !.pc = "route", !.route = "pending"]]
  /\ UNCHANGED <<fbVars, dbVars, plans, fc, calc>>

\* What planVoyage does with the settled optimizeRoute promise: a rejection
\* lands in the catch block, a result goes on to the fuel predictor.
AfterRouteIgnoringError(res) == "fuel"

AfterRoute(res) == IF res = "ok" THEN "fuel" ELSE "error"

\* routeData: routeOptimization, the value the optimizeRoute promise
\* resolved with.
RouteDataArgStale(r) == IdleCall

RouteDataArg(r) == call[r]

PlanRouteReturned(r) ==
  /\ req[r].pc = "route"
  /\ call[r].pc = "done"
  /\ IF AfterRoute(call[r].res) = "fuel"
       THEN /\ req' = [req EXCEPT ![r] =
                  [@ EXCEPT !.pc = "fuel", !.route = call[r].res,
                            !.routeOut = call[r], !.fuel = "pending",
                            !.routeData = RouteDataArg(r)]]
            /\ EnterBody(r, "fuel", TRUE)
       ELSE /\ req' = [req EXCEPT ![r] =
                  [@ EXCEPT !.pc = "sent", !.route = call[r].res,
                            !.resp = Forwarded]]
            /\ call' = [call EXCEPT ![r] = IdleCall]
            /\ UNCHANGED <<model, training, isModelLoaded, inits, calls>>
  /\ UNCHANGED <<fbVars, dbVars, plans, fc, calc>>

\* The predictFuelConsumption promise has settled: a rejection lands in the
\* catch block, otherwise the Voyage document is built and save() awaited.
PlanFuelReturned(r) ==
  /\ req[r].pc = "fuel"
  /\ call[r].pc = "done"
  /\ req' = [req EXCEPT ![r] =
        IF call[r].res = "ok"
          THEN [@ EXCEPT !.pc = "save", !.fuel = "ok"]
          ELSE [@ EXCEPT !.pc = "sent", !.fuel = call[r].res,
                         !.resp = Forwarded]]
  /\ call' = [call EXCEPT ![r] = IdleCall]
  /\ UNCHANGED <<model, training, isModelLoaded, inits, calls, fbVars,
                 dbVars, plans, fc, calc>>

\* voyage.save() has settled: the document is stored and 201 is answered,
\* or the database rejected it and the error goes to the error handler.
PlanSaveSettled(r, stored) ==
  /\ req[r].pc = "save"
  /\ IF stored
       THEN /\ voyages' = Append(voyages,
                    [shipId |-> req[r].body.shipId, status |-> "planned"])
            /\ req' = [req EXCEPT ![r] =
                  [@ EXCEPT !.pc = "sent", !.saved = TRUE, !.resp = Resp201]]
       ELSE /\ req' = [req EXCEPT ![r] =
                  [@ EXCEPT !.pc = "sent", !.resp = Forwarded]]
            /\ UNCHANGED voyages
  /\ UNCHANGED <<estVars, fbVars, ships, maintenance, plans, fc, calc>>

\* The response has been sent; the connection can carry another request.
PlanFinish(r) ==
  /\ req[r].pc = "sent"
  /\ req' = [req EXCEPT ![r] = IdleReq]
  /\ UNCHANGED <<estVars, fbVars, dbVars, plans, fc, calc>>

NextPlan ==
  \E r \in Callers :
    \/ \E b \in PlanBodies : PlanStart(r, b)
    \/ PlanShipLookup(r)
    \/ FitDone(r) /\ UNCHANGED <<fbVars, dbVars, planVars, fc, calc>>
    \/ FitFail(r) /\ UNCHANGED <<fbVars, dbVars, planVars, fc, calc>>
    \/ PlanRouteReturned(r)
    \/ PlanFuelReturned(r)
    \/ \E stored \in BOOLEAN : PlanSaveSettled(r, stored)
    \/ PlanFinish(r)

SpecPlan == Init /\ [][NextPlan]_vars

\* ------------------------------------------------------ predictMaintenance
ComponentTypes ==
  <<"engine", "hull", "navigation", "safety", "electrical", "propulsion">>

\* Math.round(maintenanceData[1] * 100) of a sigmoid output lies in 0..100,
\* Math.round(maintenanceData[0] * 730) in 0..730; the values are sampled.
RiskScores == {k * (100 \div (RiskSamples - 1)) : k \in 0..(RiskSamples - 1)}

DaysValues == {k * (730 \div DaySamples) : k \in 0..(DaySamples - 1)}

\* predictions.sort((a, b) => b.riskScore - a.riskScore)
CompareAscending(a, b) == a.riskScore - b.riskScore

Compare(a, b) == b.riskScore - a.riskScore

\* Array.prototype.sort is stable: an element goes behind every element the
\* comparator does not place after it.
RECURSIVE InsertSorted(_, _)
InsertSorted(p, sorted) ==
  IF sorted = <<>> THEN <<p>>
  ELSE IF Compare(Head(sorted), p) > 0
         THEN <<p>> \o sorted
         ELSE <<Head(sorted)>> \o InsertSorted(p, Tail(sorted))

RECURSIVE SortPredictions(_)
SortPredictions(ps) ==
  IF ps = <<>> THEN <<>>
  ELSE InsertSorted(ps[Len(ps)], SortPredictions(SubSeq(ps, 1, Len(ps) - 1)))

\* The part of predictMaintenance after the loop.
BuildForecastLastOfTies(ps) ==
  LET sorted == SortPredictions(ps)
      top == {i \in 1..Len(sorted) : sorted[i].riskScore = sorted[1].riskScore}
  IN [predictions |-> sorted,
      nextCriticalMaintenance |->
        sorted[CHOOSE i \in top : \A j \in top : j <= i]]

BuildForecast(ps) ==
  LET sorted == SortPredictions(ps)
  IN [predictions |-> sorted, nextCriticalMaintenance |-> sorted[1]]

\* predictMaintenance: the models are loaded (or have just been initialised)
\* and the first component's predictions are awaited.  The predictions of
\* one call live in a local array that no other call can reach, so the loop
\* is followed for one call at a time, made by the first caller.
ForecastCall(c) ==
  /\ c = 1
  /\ \A d \in Callers : fc[d].pc = "idle" /\ call[d].pc = "idle"
  /\ calls["maint"] < MaxForecasts
  /\ CallEnter(c, "maint", TRUE)
  /\ fc' = [fc EXCEPT ![c] = [IdleFc EXCEPT !.pc = "loop", !.i = 1]]
  /\ UNCHANGED <<fbVars, dbVars, planVars, calc>>

\* initializeModel rejected: predictMaintenance rejects.
ForecastRejected(c) ==
  /\ fc[c].pc = "loop"
  /\ call[c].pc = "done"
  /\ call[c].res = "rejected"
  /\ fc' = [fc EXCEPT ![c] = IdleFc]
  /\ call' = [call EXCEPT ![c] = IdleCall]
  /\ UNCHANGED <<model, training, isModelLoaded, inits, calls, fbVars,
                 dbVars, planVars, calc>>

\* predictComponentMaintenance for component i has its model outputs: the
\* prediction is pushed; after the sixth the array is sorted and the
\* forecast returned.
ForecastComponent(c, risk, days) ==
  /\ fc[c].pc = "loop"
  /\ call[c].pc = "done"
  /\ call[c].res = "ok"
  /\ LET i == fc[c].i
         ps == Append(fc[c].predictions,
                      [componentType |-> ComponentTypes[i],
                       riskScore |-> risk,
                       daysUntilMaintenance |-> days])
     IN fc' = [fc EXCEPT ![c] =
           IF i < Len(ComponentTypes)
             THEN [@ EXCEPT !.i = i + 1, !.predictions = ps]
             ELSE [@ EXCEPT !.pc = "done", !.predictions = ps,
                            !.forecast = BuildForecast(ps)]]
  /\ UNCHANGED <<estVars, fbVars, dbVars, planVars, calc>>

ForecastReturn(c) ==
  /\ fc[c].pc = "done"
  /\ fc' = [fc EXCEPT ![c] = IdleFc]
  /\ call' = [call EXCEPT ![c] = IdleCall]
  /\ UNCHANGED <<model, training, isModelLoaded, inits, calls, fbVars,
                 dbVars, planVars, calc>>

NextForecast ==
  \E c \in Callers :
    \/ ForecastCall(c)
    \/ FitDone(c) /\ UNCHANGED <<fbVars, dbVars, planVars, fc, calc>>
    \/ FitFail(c) /\ UNCHANGED <<fbVars, dbVars, planVars, fc, calc>>
    \/ ForecastRejected(c)
    \/ \E risk \in RiskScores, days \in DaysValues :
         ForecastComponent(c, risk, days)
    \/ ForecastReturn(c)

SpecForecast == Init /\ [][NextForecast]_vars


\* ------------------------------------------------------------------- fleet
\* The ship, voyage and maintenance controllers on the three collections.
\* A voyageId or maintenanceId is the position of the document in its
\* collection; an id past the end belongs to no document.  Two requests are
\* followed at a time: ship and maintenance requests arrive on the first
\* connection, voyage requests on the second, so that every interleaving of
\* a ship operation with a voyage operation is covered.
ShipCaller == 1

VoyageCaller == 2

FleetCallers == {ShipCaller, VoyageCaller}

Handling(op, pc, b) == [IdleReq EXCEPT !.pc = pc, !.body = [b EXCEPT !.op = op]]

Answer(code) == [code |-> code, success |-> code < 400, error |-> ""]

\* The answer has gone out; of the request only its kind is kept.
Sent(r, resp) ==
  [IdleReq EXCEPT !.pc = "sent", !.body = [op |-> r.body.op], !.resp = resp]

ActiveStatuses == {"planned", "in-progress"}

\* Voyage.countDocuments({shipId, status: {$in: ['planned', 'in-progress']}})
ActiveVoyages(shipId) ==
  Cardinality({v \in 1..Len(voyages) :
                 voyages[v].shipId = shipId
                   /\ voyages[v].status \in ActiveStatuses})

\* planVoyage with the estimators loaded: optimizeRoute and
\* predictFuelConsumption then read the shared models and change nothing.
\* The handler up to Ship.findOne.
FleetPlanStart(c, b) ==
  /\ req[c].pc = "idle"
  /\ Len(voyages) < MaxVoyages
  /\ req' = [req EXCEPT ![c] =
        LET r == Handling("planVoyage", "findShip",
                          [op |-> "", shipId |-> b.shipId])
        IN IF MissingRequired(b) THEN Sent(r, Resp400) ELSE r]
  /\ UNCHANGED <<estVars, fbVars, dbVars, plans, fc, calc>>

\* const ship = await Ship.findOne({ shipId }); if (!ship) 404: the ship's
\* status is not looked at.
ShipFound(shipId) == ships[shipId] # "none"

FleetPlanShipLookup(c) ==
  /\ req[c].pc = "findShip"
  /\ req' = [req EXCEPT ![c] =
        IF ShipFound(req[c].body.shipId)
          THEN [@ EXCEPT !.pc = "route", !.route = "pending"]
          ELSE [@ EXCEPT !.pc = "sent", !.resp = Resp404]]
  /\ UNCHANGED <<estVars, fbVars, dbVars, plans, fc, calc>>

\* optimizeRoute has resolved, then predictFuelConsumption, after which the
\* Voyage document is built and save() awaited.
FleetPlanEstimated(c) ==
  /\ req[c].pc \in {"route", "fuel"}
  /\ req' = [req EXCEPT ![c] =
        IF @.pc = "route"
          THEN [@ EXCEPT !.pc = "fuel", !.route = "ok", !.fuel = "pending"]
          ELSE [@ EXCEPT !.pc = "save", !.fuel = "ok"]]
  /\ UNCHANGED <<estVars, fbVars, dbVars, plans, fc, calc>>

\* createShip up to Ship.findOne.
CreateShipStart(c, shipId, status) ==
  /\ req[c].pc = "idle"
  /\ req' = [req EXCEPT ![c] =
        Handling("createShip", "createFind",
                 [op |-> "", shipId |-> shipId, status |-> status])]
  /\ UNCHANGED <<estVars, fbVars, dbVars, plans, fc, calc>>

\* findOne has resolved: 400 for an existing shipId, else ship.save().
CreateShipLookup(c) ==
  /\ req[c].pc = "createFind"
  /\ req' = [req EXCEPT ![c] =
        IF ships[req[c].body.shipId] # "none"
          THEN Sent(@, Answer(400))
          ELSE [@ EXCEPT !.pc = "createSave"]]
  /\ UNCHANGED <<estVars, fbVars, dbVars, plans, fc, calc>>

\* save() has settled; the unique index on shipId rejects a second document.
CreateShipSaved(c) ==
  /\ req[c].pc = "createSave"
  /\ LET b == req[c].body
     IN IF ships[b.shipId] = "none"
          THEN /\ ships' = [ships EXCEPT ![b.shipId] = b.status]
               /\ req' = [req EXCEPT ![c] = Sent(@, Answer(201))]
          ELSE /\ req' = [req EXCEPT ![c] = Sent(@, Forwarded)]
               /\ UNCHANGED ships
  /\ UNCHANGED <<estVars, fbVars, voyages, maintenance, plans, fc, calc>>

\* deleteShip up to Voyage.countDocuments.
DeleteShipStart(c, shipId) ==
  /\ req[c].pc = "idle"
  /\ req' = [req EXCEPT ![c] =
        Handling("deleteShip", "deleteCount", [op |-> "", shipId |-> shipId])]
  /\ UNCHANGED <<estVars, fbVars, dbVars, plans, fc, calc>>

\* The count has resolved: 400 with active voyages, else
\* Ship.findOneAndUpdate({shipId}, {status: 'decommissioned'}).
DeleteShipCounted(c) ==
  /\ req[c].pc = "deleteCount"
  /\ req' = [req EXCEPT ![c] =
        IF ActiveVoyages(req[c].body.shipId) > 0
          THEN Sent(@, Answer(400))
          ELSE [@ EXCEPT !.pc = "deleteUpdate"]]
  /\ UNCHANGED <<estVars, fbVars, dbVars, plans, fc, calc>>

\* The update has resolved: 404 when no ship matched.
DeleteShipUpdated(c) ==
  /\ req[c].pc = "deleteUpdate"
  /\ LET shipId == req[c].body.shipId
     IN IF ships[shipId] = "none"
          THEN /\ req' = [req EXCEPT ![c] = Sent(@, Answer(404))]
               /\ UNCHANGED ships
          ELSE /\ ships' = [ships EXCEPT ![shipId] = "decommissioned"]
               /\ req' = [req EXCEPT ![c] = Sent(@, Answer(200))]
  /\ UNCHANGED <<estVars, fbVars, voyages, maintenance, plans, fc, calc>>

ValidStatuses == {"planned", "in-progress", "completed", "cancelled", "delayed"}

\* updateVoyageStatus up to Voyage.findOneAndUpdate.
UpdateVoyageStatusStart(c, voyageId, status) ==
  /\ req[c].pc = "idle"
  /\ req' = [req EXCEPT ![c] =
        LET r == Handling("updateVoyageStatus", "statusUpdate",
                          [op |-> "", voyageId |-> voyageId, status |-> status])
        IN IF status \notin ValidStatuses THEN Sent(r, Answer(400)) ELSE r]
  /\ UNCHANGED <<estVars, fbVars, dbVars, plans, fc, calc>>

\* The update has resolved: 404 when no voyage matched.
UpdateVoyageStatusSettled(c) ==
  /\ req[c].pc = "statusUpdate"
  /\ LET b == req[c].body
     IN IF b.voyageId \notin 1..Len(voyages)
          THEN /\ req' = [req EXCEPT ![c] = Sent(@, Answer(404))]
               /\ UNCHANGED voyages
          ELSE /\ voyages' = [voyages EXCEPT ![b.voyageId].status = b.status]
               /\ req' = [req EXCEPT ![c] = Sent(@, Answer(200))]
  /\ UNCHANGED <<estVars, fbVars, ships, maintenance, plans, fc, calc>>

\* One call of updateModelWithFeedback / updateModelWithActualData /
\* updateWithMaintenanceData from a controller: the entry is pushed unless
\* reading the record threw, and a full batch invokes the retraining stub.
Feeds(e, good) ==
  IF ExtractThrows(e, good)
    THEN UNCHANGED <<buffer, retrains>>
    ELSE LET buf == Pushed(buffer[e])
         IN /\ buffer' = [buffer EXCEPT ![e] = buf]
            /\ retrains' = [retrains EXCEPT ![e] =
                              IF RetrainDue(e, Len(buf)) THEN @ + 1 ELSE @]

\* submitFeedback up to Voyage.findOne; voyageId 0 is a missing voyageId.
\* actualRoute and actualFuelConsumption are tested for truthiness.
SubmitFeedbackStart(c, voyageId, actualRoute, actualFuelConsumption) ==
  /\ req[c].pc = "idle"
  /\ \A e \in {"route", "fuel"} : Len(buffer[e]) < MaxOther
  /\ req' = [req EXCEPT ![c] =
        LET r == Handling("submitFeedback", "feedbackFind",
                          [op |-> "", voyageId |-> voyageId,
                           actualRoute |-> actualRoute,
                           actualFuelConsumption |-> actualFuelConsumption])
        IN IF voyageId = 0 THEN Sent(r, Answer(400)) ELSE r]
  /\ UNCHANGED <<estVars, fbVars, dbVars, plans, fc, calc>>

\* findOne has resolved: 404 for an unknown voyage, else the update is
\* issued.
SubmitFeedbackLookup(c) ==
  /\ req[c].pc = "feedbackFind"
  /\ req' = [req EXCEPT ![c] =
        IF req[c].body.voyageId \notin 1..Len(voyages)
          THEN Sent(@, Answer(404))
          ELSE [@ EXCEPT !.pc = "feedbackUpdate"]]
  /\ UNCHANGED <<estVars, fbVars, dbVars, plans, fc, calc>>

\* Voyage.findOneAndUpdate({voyageId}, updateData) has resolved; the voyage
\* is read again.
SubmitFeedbackUpdated(c) ==
  /\ req[c].pc = "feedbackUpdate"
  /\ voyages' = [voyages EXCEPT ![req[c].body.voyageId].status = "completed"]
  /\ req' = [req EXCEPT ![c] = [@ EXCEPT !.pc = "feedbackRead"]]
  /\ UNCHANGED <<estVars, fbVars, ships, maintenance, plans, fc, calc>>

\* The second findOne has resolved, or an awaited estimator update has: the
\* next update that is due is made, and after the last the answer is sent.
SubmitFeedbackFedFuelAlways(c, good) ==
  /\ req[c].pc \in {"feedbackRead", "feedbackRoute", "feedbackFuel"}
  /\ LET b == req[c].body
         next == IF req[c].pc = "feedbackRead" /\ b.actualRoute
                   THEN "feedbackRoute"
                 ELSE IF req[c].pc # "feedbackFuel"
                   THEN "feedbackFuel"
                 ELSE "sent"
     IN /\ CASE next = "feedbackRoute" -> Feeds("route", good)
             [] next = "feedbackFuel" -> Feeds("fuel", good)
             [] OTHER -> UNCHANGED <<buffer, retrains>>
        /\ req' = [req EXCEPT ![c] =
              IF next = "sent" THEN Sent(@, Answer(200))
              ELSE [@ EXCEPT !.pc = next]]
  /\ UNCHANGED <<estVars, fb, dbVars, plans, fc, calc>>

SubmitFeedbackFed(c, good) ==
  /\ req[c].pc \in {"feedbackRead", "feedbackRoute", "feedbackFuel"}
  /\ LET b == req[c].body
         next == IF req[c].pc = "feedbackRead" /\ b.actualRoute
                   THEN "feedbackRoute"
                 ELSE IF req[c].pc # "feedbackFuel" /\ b.actualFuelConsumption
                   THEN "feedbackFuel"
                 ELSE "sent"
     IN /\ CASE next = "feedbackRoute" -> Feeds("route", good)
             [] next = "feedbackFuel" -> Feeds("fuel", good)
             [] OTHER -> UNCHANGED <<buffer, retrains>>
        /\ req' = [req EXCEPT ![c] =
              IF next = "sent" THEN Sent(@, Answer(200))
              ELSE [@ EXCEPT !.pc = next]]
  /\ UNCHANGED <<estVars, fb, dbVars, plans, fc, calc>>

\* updateMaintenance up to Maintenance.findOneAndUpdate; status "" is an
\* update that does not set the status.
UpdateStatuses == {"", "in-progress", "completed"}

UpdateMaintenanceStart(c, maintenanceId, status, completedDate) ==
  /\ req[c].pc = "idle"
  /\ Len(buffer["maint"]) < MaxOther
  /\ req' = [req EXCEPT ![c] =
        Handling("updateMaintenance", "maintenanceUpdate",
                 [op |-> "", maintenanceId |-> maintenanceId,
                  status |-> status, completedDate |-> completedDate])]
  /\ UNCHANGED <<estVars, fbVars, dbVars, plans, fc, calc>>

UpdatedRecord(record, b) ==
  [record EXCEPT !.status = IF b.status = "" THEN @ ELSE b.status,
                 !.completedDate = @ \/ b.completedDate]

\* if (updateData.status === 'completed' && updateData.completedDate)
FeedsForecaster(b) == b.status = "completed" /\ b.completedDate

\* The update has resolved: 404 when no record matched; a completed record
\* goes to the forecaster.
UpdateMaintenanceSettled(c) ==
  /\ req[c].pc = "maintenanceUpdate"
  /\ LET b == req[c].body
     IN IF b.maintenanceId \notin 1..Len(maintenance)
          THEN /\ req' = [req EXCEPT ![c] = Sent(@, Answer(404))]
               /\ UNCHANGED <<maintenance, buffer, retrains>>
          ELSE /\ maintenance' = [maintenance EXCEPT ![b.maintenanceId] =
                                    UpdatedRecord(@, b)]
               /\ IF FeedsForecaster(b)
                    THEN /\ Feeds("maint", TRUE)
                         /\ req' = [req EXCEPT ![c] =
                               [@ EXCEPT !.pc = "maintenanceFed"]]
                    ELSE /\ UNCHANGED <<buffer, retrains>>
                         /\ req' = [req EXCEPT ![c] = Sent(@, Answer(200))]
  /\ UNCHANGED <<estVars, fb, ships, voyages, plans, fc, calc>>

\* updateWithMaintenanceData has resolved.
UpdateMaintenanceFed(c) ==
  /\ req[c].pc = "maintenanceFed"
  /\ req' = [req EXCEPT ![c] = Sent(@, Answer(200))]
  /\ UNCHANGED <<estVars, fbVars, dbVars, plans, fc, calc>>

\* A record as scheduleMaintenance stores it.
Scheduled(shipId, aiPrediction) ==
  [shipId |-> shipId, status |-> "scheduled", aiPrediction |-> aiPrediction,
   completedDate |-> FALSE]

\* The fleet holds one ship, for which one maintenance has been scheduled.
InitFleet ==
  /\ LoadedInit /\ FbInit /\ PlanInit /\ FcInit /\ CalcInit
  /\ ships = [i \in ShipIds |-> IF i = 1 THEN "active" ELSE "none"]
  /\ voyages = <<>>
  /\ maintenance = <<Scheduled(1, "null")>>

\* The statuses a request may ask for, one of them not a valid status.
StatusInputs == {"planned", "in-progress", "completed", "lost"}

NextFleet ==
  \/ \E i \in ShipIds, s \in {"active", "decommissioned"} :
       CreateShipStart(ShipCaller, i, s)
  \/ CreateShipLookup(ShipCaller)
  \/ CreateShipSaved(ShipCaller)
  \/ \E i \in ShipIds : DeleteShipStart(ShipCaller, i)
  \/ DeleteShipCounted(ShipCaller)
  \/ DeleteShipUpdated(ShipCaller)
  \/ FleetPlanStart(VoyageCaller, GoodBody)
  \/ FleetPlanShipLookup(VoyageCaller)
  \/ FleetPlanEstimated(VoyageCaller)
  \/ \E stored \in BOOLEAN : PlanSaveSettled(VoyageCaller, stored)
  \/ \E v \in 1..(Len(voyages) + 1), s \in StatusInputs :
       UpdateVoyageStatusStart(VoyageCaller, v, s)
  \/ UpdateVoyageStatusSettled(VoyageCaller)
  \/ \E v \in 0..(Len(voyages) + 1), route \in BOOLEAN, fuel \in BOOLEAN :
       SubmitFeedbackStart(VoyageCaller, v, route, fuel)
  \/ SubmitFeedbackLookup(VoyageCaller)
  \/ SubmitFeedbackUpdated(VoyageCaller)
  \/ \E good \in BOOLEAN : SubmitFeedbackFed(VoyageCaller, good)
  \/ \E c \in FleetCallers : PlanFinish(c)

SpecFleet == InitFleet /\ [][NextFleet]_vars

\* The requests that feed the estimators, together with planVoyage, which
\* creates the voyages submitFeedback is about.
NextLearn ==
  \/ FleetPlanStart(VoyageCaller, GoodBody)
  \/ FleetPlanShipLookup(VoyageCaller)
  \/ FleetPlanEstimated(VoyageCaller)
  \/ \E stored \in BOOLEAN : PlanSaveSettled(VoyageCaller, stored)
  \/ \E v \in 0..(Len(voyages) + 1), route \in BOOLEAN, fuel \in BOOLEAN :
       SubmitFeedbackStart(VoyageCaller, v, route, fuel)
  \/ SubmitFeedbackLookup(VoyageCaller)
  \/ SubmitFeedbackUpdated(VoyageCaller)
  \/ \E good \in BOOLEAN : SubmitFeedbackFed(VoyageCaller, good)
  \/ \E m \in 1..(Len(maintenance) + 1), s \in UpdateStatuses,
        d \in BOOLEAN : UpdateMaintenanceStart(ShipCaller, m, s, d)
  \/ UpdateMaintenanceSettled(ShipCaller)
  \/ UpdateMaintenanceFed(ShipCaller)
  \/ \E c \in FleetCallers : PlanFinish(c)

SpecLearn == InitFleet /\ [][NextLearn]_vars


\* ------------------------------------------------------------- maintenance
\* scheduleMaintenance and getMaintenanceAlerts with the forecaster they
\* call.  Inside predictMaintenance the six component predictions are
\* folded into the step that settles the call.  Schedule requests arrive on
\* the first connection, alert requests on the second.
AlertsCaller == 2

\* A scheduleMaintenance body: shipId 0 is a missing shipId; componentType
\* is one of the six the forecaster covers, or another category.
ScheduleBodies ==
  {[op |-> "scheduleMaintenance", shipId |-> i, covered |-> k,
    failed |-> FALSE, aiPrediction |-> "null", maintenanceId |-> 0,
    saveRejected |-> FALSE] :
     i \in {0} \cup ShipIds, k \in BOOLEAN}

\* The handler up to Ship.findOne.
ScheduleStart(c, b) ==
  /\ req[c].pc = "idle"
  /\ req' = [req EXCEPT ![c] =
        IF b.shipId = 0
          THEN Sent([IdleReq EXCEPT !.body = b], Answer(400))
          ELSE [IdleReq EXCEPT !.pc = "scheduleFind", !.body = b]]
  /\ UNCHANGED <<estVars, fbVars, dbVars, plans, fc, calc>>

\* findOne has resolved: 404 for an unknown ship, else the usage data are
\* made up and predictMaintenance is called.
ScheduleShipLookup(c) ==
  /\ req[c].pc = "scheduleFind"
  /\ IF ships[req[c].body.shipId] = "none"
       THEN /\ req' = [req EXCEPT ![c] = Sent(@, Answer(404))]
            /\ UNCHANGED estVars
       ELSE /\ CallEnter(c, "maint", TRUE)
            /\ req' = [req EXCEPT ![c] = [@ EXCEPT !.pc = "schedulePredict"]]
  /\ UNCHANGED <<fbVars, dbVars, plans, fc, calc>>

\* predictMaintenance has settled.  A rejection is caught and logged and
\* aiPrediction stays null; a forecast gives the prediction of the
\* component, if it has one.  The record is built and save() awaited.
SchedulePredictedUncaught(c) ==
  /\ req[c].pc = "schedulePredict"
  /\ call[c].pc = "done"
  /\ req' = [req EXCEPT ![c] =
        IF call[c].res = "ok"
          THEN [@ EXCEPT !.pc = "scheduleSave",
                         !.body.aiPrediction =
                           IF req[c].body.covered THEN "forecast" ELSE "null"]
          ELSE [@ EXCEPT !.pc = "sent", !.body.failed = TRUE,
                         !.resp = Forwarded]]
  /\ call' = [call EXCEPT ![c] = IdleCall]
  /\ UNCHANGED <<model, training, isModelLoaded, inits, calls, fbVars,
                 dbVars, plans, fc, calc>>

SchedulePredicted(c) ==
  /\ req[c].pc = "schedulePredict"
  /\ call[c].pc = "done"
  /\ req' = [req EXCEPT ![c] =
        IF call[c].res = "ok"
          THEN [@ EXCEPT !.pc = "scheduleSave",
                         !.body.aiPrediction =
                           IF req[c].body.covered THEN "forecast" ELSE "null"]
          ELSE [@ EXCEPT !.pc = "scheduleSave", !.body.failed = TRUE]]
  /\ call' = [call EXCEPT ![c] = IdleCall]
  /\ UNCHANGED <<model, training, isModelLoaded, inits, calls, fbVars,
                 dbVars, plans, fc, calc>>

\* save() has settled: the record is stored and 201 answered, or the
\* database rejected it and the error goes to the error handler.
ScheduleSaved(c, stored) ==
  /\ req[c].pc = "scheduleSave"
  /\ LET b == req[c].body
     IN IF stored
          THEN /\ maintenance' =
                    Append(maintenance, Scheduled(b.shipId, b.aiPrediction))
               /\ req' = [req EXCEPT ![c] =
                     [@ EXCEPT !.pc = "sent", !.resp = Answer(201),
                               !.body.maintenanceId = Len(maintenance) + 1]]
          ELSE /\ req' = [req EXCEPT ![c] =
                     [@ EXCEPT !.pc = "sent", !.resp = Forwarded,
                               !.body.saveRejected = TRUE]]
               /\ UNCHANGED maintenance
  /\ UNCHANGED <<estVars, fbVars, ships, voyages, plans, fc, calc>>

\* Maintenance.find({status: {$in: ['scheduled', 'overdue']}, shipId?})
AlertRecords(shipId) ==
  {m \in 1..Len(maintenance) :
     /\ maintenance[m].status \in {"scheduled", "overdue"}
     /\ shipId # 0 => maintenance[m].shipId = shipId}

\* shipId ? Ship.find({ shipId }) : Ship.find({ status: 'active' }),
\* in the order of the collection.
RECURSIVE ShipsFrom(_, _)
ShipsFrom(i, shipId) ==
  IF i \notin ShipIds THEN <<>>
  ELSE (IF (shipId = 0 /\ ships[i] = "active")
            \/ (shipId = i /\ ships[i] # "none")
          THEN <<i>> ELSE <<>>) \o ShipsFrom(i + 1, shipId)

\* getMaintenanceAlerts up to Maintenance.find; shipId 0 is no filter.
AlertsStart(c, shipId) ==
  /\ req[c].pc = "idle"
  /\ req' = [req EXCEPT ![c] =
        [IdleReq EXCEPT !.pc = "alertsRecords",
                        !.body = [op |-> "getMaintenanceAlerts",
                                  shipId |-> shipId, records |-> {},
                                  ships |-> <<>>, failed |-> {},
                                  aiPredictions |-> <<>>, alerts |-> {}]]]
  /\ UNCHANGED <<estVars, fbVars, dbVars, plans, fc, calc>>

\* The records are there; the ships are asked for.
AlertsRecordsFound(c) ==
  /\ req[c].pc = "alertsRecords"
  /\ req' = [req EXCEPT ![c] =
        [@ EXCEPT !.pc = "alertsShips",
                  !.body.records = AlertRecords(req[c].body.shipId)]]
  /\ UNCHANGED <<estVars, fbVars, dbVars, plans, fc, calc>>

\* alerts = [...maintenanceRecords.map(...), ...aiPredictions.flatMap(...)]
\* and res.json({success: true, ...}).
AlertsAnswered(r) ==
  [r EXCEPT !.pc = "sent", !.resp = Answer(200),
            !.body.alerts =
              {<<"scheduled", m>> : m \in r.body.records}
                \cup {<<"ai_prediction", r.body.aiPredictions[k]>> :
                        k \in 1..Len(r.body.aiPredictions)}]

\* The ships are there: the loop calls predictMaintenance for the first,
\* or there is none and the answer is sent.
AlertsShipsFound(c) ==
  /\ req[c].pc = "alertsShips"
  /\ LET found == ShipsFrom(1, req[c].body.shipId)
     IN IF found = <<>>
          THEN /\ req' = [req EXCEPT ![c] = AlertsAnswered(@)]
               /\ UNCHANGED estVars
          ELSE /\ CallEnter(c, "maint", TRUE)
               /\ req' = [req EXCEPT ![c] =
                     [@ EXCEPT !.pc = "alertsPredict", !.body.ships = found]]
  /\ UNCHANGED <<fbVars, dbVars, plans, fc, calc>>

\* predictMaintenance has settled for the ship at hand: a forecast is
\* pushed, a rejection is caught and logged; the loop goes on to the next
\* ship, and after the last the answer is sent.
AlertsPredicted(c) ==
  /\ req[c].pc = "alertsPredict"
  /\ call[c].pc = "done"
  /\ LET b == req[c].body
         done == Len(b.aiPredictions) + Cardinality(b.failed)
         ship == b.ships[done + 1]
         ok == call[c].res = "ok"
         r == [req[c] EXCEPT
                 !.body.aiPredictions = IF ok THEN Append(@, ship) ELSE @,
                 !.body.failed = IF ok THEN @ ELSE @ \cup {ship}]
     IN IF done + 1 = Len(b.ships)
          THEN /\ req' = [req EXCEPT ![c] = AlertsAnswered(r)]
               /\ call' = [call EXCEPT ![c] = IdleCall]
               /\ UNCHANGED <<model, training, isModelLoaded, inits, calls>>
          ELSE /\ req' = [req EXCEPT ![c] = r]
               /\ EnterBody(c, "maint", TRUE)
  /\ UNCHANGED <<fbVars, dbVars, plans, fc, calc>>

\* Two active ships, nothing scheduled yet, no estimator used yet.
InitMaint ==
  /\ EstInit /\ FbInit /\ PlanInit /\ FcInit /\ CalcInit
  /\ ships = [i \in ShipIds |-> "active"]
  /\ voyages = <<>>
  /\ maintenance = <<>>

NextMaint ==
  \/ \E b \in ScheduleBodies : ScheduleStart(ShipCaller, b)
  \/ ScheduleShipLookup(ShipCaller)
  \/ SchedulePredicted(ShipCaller)
  \/ \E stored \in BOOLEAN : ScheduleSaved(ShipCaller, stored)
  \/ \E i \in {0} \cup ShipIds : AlertsStart(AlertsCaller, i)
  \/ AlertsRecordsFound(AlertsCaller)
  \/ AlertsShipsFound(AlertsCaller)
  \/ AlertsPredicted(AlertsCaller)
  \/ \E c \in FleetCallers :
       \/ FitDone(c) /\ UNCHANGED <<fbVars, dbVars, planVars, fc, calc>>
       \/ FitFail(c) /\ UNCHANGED <<fbVars, dbVars, planVars, fc, calc>>
       \/ PlanFinish(c)

SpecMaint == InitMaint /\ [][NextMaint]_vars

\* ------------------------------------------------------ synchronous helpers
\* The helpers below run to completion inside one handler step.  Each is
\* evaluated on its own: calc holds the helper's name and arguments, and one
\* step stores its result.
Around(ts) == {t + d : t \in ts, d \in (0 - Near)..Near}

\* riskScore is Math.round(x * 100) and daysUntilMaintenance
\* Math.round(x * 730) of a sigmoid output x.
RiskInputs == {r \in Around({40, 50, 60, 70, 80, 85}) \cup {0, 100} : r \in 0..100}

DaysInputs == {d \in Around({15, 30, 45, 90, 120, 180}) \cup {0, 730} : d \in 0..730}

CalcIn(f, a) == [pc |-> "in", fn |-> f, arg |-> a, out |-> "none"]

Applied(f) == calc.pc = "in" /\ calc.fn = f

\* 1 if the condition holds, else 0.
Count(b) == IF b THEN 1 ELSE 0

Returned(f) == calc.pc = "out" /\ calc.fn = f

Result(v) ==
  /\ calc' = [calc EXCEPT !.pc = "out", !.out = v]
  /\ UNCHANGED <<estVars, fbVars, dbVars, planVars, fc>>

\* calculatePriority(riskScore, daysUntilMaintenance)
calculatePriorityInclusive(riskScore, daysUntilMaintenance) ==
  IF riskScore >= 80 \/ daysUntilMaintenance <= 30 THEN "critical"
  ELSE IF riskScore >= 60 \/ daysUntilMaintenance <= 90 THEN "high"
  ELSE IF riskScore >= 40 \/ daysUntilMaintenance <= 180 THEN "medium"
  ELSE "low"

calculatePriority(riskScore, daysUntilMaintenance) ==
  IF riskScore > 80 \/ daysUntilMaintenance < 30 THEN "critical"
  ELSE IF riskScore > 60 \/ daysUntilMaintenance < 90 THEN "high"
  ELSE IF riskScore > 40 \/ daysUntilMaintenance < 180 THEN "medium"
  ELSE "low"

PriorityInputs ==
  {CalcIn("calculatePriority", [riskScore |-> r, daysUntilMaintenance |-> d]) :
     r \in RiskInputs, d \in DaysInputs}

ApplyPriority ==
  /\ Applied("calculatePriority")
  /\ Result(calculatePriority(calc.arg.riskScore, calc.arg.daysUntilMaintenance))

\* getRecommendedAction(riskScore, daysUntilMaintenance)
getRecommendedActionNoDays(riskScore, daysUntilMaintenance) ==
  IF riskScore > 85 THEN "immediate_action"
  ELSE IF riskScore > 70 THEN "schedule_soon"
  ELSE IF riskScore > 50 THEN "plan_maintenance"
  ELSE "monitor"

getRecommendedAction(riskScore, daysUntilMaintenance) ==
  IF riskScore > 85 \/ daysUntilMaintenance < 15 THEN "immediate_action"
  ELSE IF riskScore > 70 \/ daysUntilMaintenance < 45 THEN "schedule_soon"
  ELSE IF riskScore > 50 \/ daysUntilMaintenance < 120 THEN "plan_maintenance"
  ELSE "monitor"

ActionInputs ==
  {CalcIn("getRecommendedAction", [riskScore |-> r, daysUntilMaintenance |-> d]) :
     r \in RiskInputs, d \in DaysInputs}

ApplyAction ==
  /\ Applied("getRecommendedAction")
  /\ Result(getRecommendedAction(calc.arg.riskScore,
                                 calc.arg.daysUntilMaintenance))

\* generateWaypoints(start, end, numWaypoints).  Coordinates are held in
\* units of 1e-7 degree, so that inputs finer than the six decimals kept by
\* the rounding can be told apart; a waypoint is held in units of 1e-6
\* degree, the grid Math.round(x * 1000000) / 1000000 puts it on.
NumWaypoints == 10

HourMs == 3600000

\* Math.round(x) is floor(x + 1/2); n is x in hundredths.
RoundHundredths(n) == (n + 50) \div 100

\* start + (end - start) * (i / numWaypoints), in units of 1e-8 degree.
Interpolated(a, b, i) == 10 * a + (b - a) * i

\* Date.now() is read anew in every iteration: the value read in iteration
\* i is the first one plus the clock ticks that happened up to then.
NowAt(now, ticks, i) == now + Cardinality({k \in ticks : k <= i})

WaypointTimestamp(now, ticks, i) == NowAt(now, ticks, i) + i * HourMs

generateWaypoints(start, end, numWaypoints, now, ticks) ==
  [k \in 1..(numWaypoints + 1) |->
     [latitude |-> RoundHundredths(Interpolated(start.latitude,
                                                end.latitude, k - 1)),
      longitude |-> RoundHundredths(Interpolated(start.longitude,
                                                 end.longitude, k - 1)),
      timestamp |-> WaypointTimestamp(now, ticks, k - 1),
      speed |-> 15]]

\* Sample positions, all within five degrees of the origin of coordinates
\* (the interpolation is the same arithmetic anywhere): two given to four
\* decimals, two given to seven decimals on either side of the equator, and
\* the origin itself.
Points ==
  { [latitude |-> 40712800, longitude |-> 0 - 47400600],
    [latitude |-> 15507400, longitude |-> 0 - 1278000],
    [latitude |-> 10000005, longitude |-> 34567894],
    [latitude |-> 0 - 33868815, longitude |-> 15120996],
    [latitude |-> 0, longitude |-> 0] }

\* The iterations (1..numWaypoints) before whose clock read a tick fell.
TickSets == {t \in SUBSET (1..NumWaypoints) : Cardinality(t) <= MaxTicks}

WaypointInputs ==
  {CalcIn("generateWaypoints", [start |-> a, end |-> b, now |-> 0]) :
     a \in Points, b \in Points}

\* optimizeRoute: this.generateWaypoints(origin.coordinates,
\* destination.coordinates, 10)
ApplyWaypoints ==
  /\ Applied("generateWaypoints")
  /\ \E ticks \in TickSets :
       Result(generateWaypoints(calc.arg.start, calc.arg.end, NumWaypoints,
                                calc.arg.now, ticks))

\* calculateWeatherScore(weatherForecast).  An observation is a record that
\* may lack any of its fields; a comparison with a missing field (undefined)
\* is false.
Gt(o, f, t) == f \in DOMAIN o /\ o[f] > t

Lt(o, f, t) == f \in DOMAIN o /\ o[f] < t

WindScore(o) ==
  IF Gt(o, "windSpeed", 25) THEN 3
  ELSE IF Gt(o, "windSpeed", 15) THEN 2
  ELSE IF Gt(o, "windSpeed", 10) THEN 1
  ELSE 0

WaveScore(o) ==
  IF Gt(o, "waveHeight", 4) THEN 3
  ELSE IF Gt(o, "waveHeight", 2) THEN 2
  ELSE IF Gt(o, "waveHeight", 1) THEN 1
  ELSE 0

VisibilityScore(o) ==
  IF Lt(o, "visibility", 1) THEN 2
  ELSE IF Lt(o, "visibility", 5) THEN 1
  ELSE 0

ObservationScore(o) == WindScore(o) + WaveScore(o) + VisibilityScore(o)

\* totalScore after the loop over the forecast.
RECURSIVE TotalScore(_)
TotalScore(forecast) ==
  IF forecast = <<>> THEN 0
  ELSE ObservationScore(Head(forecast)) + TotalScore(Tail(forecast))

\* A quotient is held as numerator and denominator.  Math.min(10, t / n).
MinTenOf(t, n) == IF t > 10 * n THEN [num |-> 10, den |-> 1]
                  ELSE [num |-> t, den |-> n]

calculateWeatherScoreTotalled(weatherForecast) ==
  IF weatherForecast = <<>> THEN [num |-> 3, den |-> 1]
  ELSE MinTenOf(TotalScore(weatherForecast), 1)

calculateWeatherScore(weatherForecast) ==
  IF weatherForecast = <<>> THEN [num |-> 3, den |-> 1]
  ELSE MinTenOf(TotalScore(weatherForecast), Len(weatherForecast))

\* Observations around every threshold, and three typical ones: calm,
\* storm, and a report that carries the wind speed only.
Calm == [windSpeed |-> 5, waveHeight |-> 0, visibility |-> 10]

Storm == [windSpeed |-> 30, waveHeight |-> 5, visibility |-> 0]

WindOnly == [windSpeed |-> 16]

ThresholdObservations ==
  {[windSpeed |-> w, waveHeight |-> h, visibility |-> v] :
     w \in Around({10, 15, 25}), h \in Around({1, 2, 4}),
     v \in Around({1, 5})}

RECURSIVE SeqsUpTo(_, _)
SeqsUpTo(S, n) ==
  IF n = 0 THEN {<<>>}
  ELSE LET shorter == SeqsUpTo(S, n - 1)
       IN shorter \cup {Append(q, x) : q \in shorter, x \in S}

Forecasts ==
  {<<o>> : o \in ThresholdObservations}
    \cup SeqsUpTo({Calm, Storm, WindOnly}, MaxObs)

WeatherScoreInputs == {CalcIn("calculateWeatherScore", f) : f \in Forecasts}

ApplyWeatherScore ==
  /\ Applied("calculateWeatherScore")
  /\ Result(calculateWeatherScore(calc.arg))

\* FuelPredictor.calculateWeatherImpact(weatherForecast)
WindImpactHeavier(o) ==
  IF Gt(o, "windSpeed", 30) THEN 5
  ELSE IF Gt(o, "windSpeed", 20) THEN 3
  ELSE IF Gt(o, "windSpeed", 15) THEN 2
  ELSE IF Gt(o, "windSpeed", 10) THEN 1
  ELSE 0

WindImpact(o) ==
  IF Gt(o, "windSpeed", 30) THEN 4
  ELSE IF Gt(o, "windSpeed", 20) THEN 3
  ELSE IF Gt(o, "windSpeed", 15) THEN 2
  ELSE IF Gt(o, "windSpeed", 10) THEN 1
  ELSE 0

\* waveHeight is held in tenths of a metre here (the threshold 1.5).
WaveImpact(o) ==
  IF Gt(o, "waveHeight10", 50) THEN 3
  ELSE IF Gt(o, "waveHeight10", 30) THEN 2
  ELSE IF Gt(o, "waveHeight10", 15) THEN 1
  ELSE 0

RECURSIVE ImpactScore(_)
ImpactScore(forecast) ==
  IF forecast = <<>> THEN 0
  ELSE WindImpact(Head(forecast)) + WaveImpact(Head(forecast))
         + ImpactScore(Tail(forecast))

calculateWeatherImpact(weatherForecast) ==
  IF weatherForecast = <<>> THEN [num |-> 3, den |-> 1]
  ELSE MinTenOf(ImpactScore(weatherForecast), Len(weatherForecast))

\* q > t for a quotient q.
Exceeds(q, t) == q.num > t * q.den

Clamp(lo, hi, x) == IF x < lo THEN lo ELSE IF x > hi THEN hi ELSE x

\* FuelPredictor.calculatePredictionConfidence(params), in hundredths.
\* shipAge is new Date().getFullYear() - (params.ship.yearBuilt || 2010).
fuelConfidenceAgeInclusive(weatherForecast, totalDistance, shipAge) ==
  LET weatherScore == calculateWeatherImpact(weatherForecast)
      c0 == 80
      c1 == IF Exceeds(weatherScore, 7) THEN c0 - 10 ELSE c0
      c2 == IF Exceeds(weatherScore, 9) THEN c1 - 10 ELSE c1
      c3 == IF totalDistance < 50 \/ totalDistance > 5000 THEN c2 - 10 ELSE c2
      c4 == IF shipAge <= 5 THEN c3 + 5 ELSE c3
  IN Clamp(50, 95, c4)

fuelPredictionConfidence(weatherForecast, totalDistance, shipAge) ==
  LET weatherScore == calculateWeatherImpact(weatherForecast)
      c0 == 80
      c1 == IF Exceeds(weatherScore, 7) THEN c0 - 10 ELSE c0
      c2 == IF Exceeds(weatherScore, 9) THEN c1 - 10 ELSE c1
      c3 == IF totalDistance < 50 \/ totalDistance > 5000 THEN c2 - 10 ELSE c2
      c4 == IF shipAge < 5 THEN c3 + 5 ELSE c3
  IN Clamp(50, 95, c4)

\* The heaviest observation the impact score knows, and a light one.
Hurricane == [windSpeed |-> 31, waveHeight10 |-> 51]

Breeze == [windSpeed |-> 11, waveHeight10 |-> 15]

FuelForecasts == SeqsUpTo({Hurricane, Breeze}, MaxObs)

DistanceInputs == {x \in Around({50, 5000}) \cup {0, 3000} : x >= 0}

ShipAgeInputs == {a \in Around({5}) \cup {0, 16} : a >= 0}

FuelConfidenceInputs ==
  {CalcIn("fuelPredictionConfidence",
          [weatherForecast |-> f, totalDistance |-> x, shipAge |-> a]) :
     f \in FuelForecasts, x \in DistanceInputs, a \in ShipAgeInputs}

ApplyFuelConfidence ==
  /\ Applied("fuelPredictionConfidence")
  /\ Result(fuelPredictionConfidence(calc.arg.weatherForecast,
                                     calc.arg.totalDistance,
                                     calc.arg.shipAge))

\* The reported fields of predictFuelConsumption that derive from the
\* model output.  fuelConsumption is held in thousandths of a ton, the
\* reported fields in hundredths, the CO2 factor in tenths.
EngineTypes == {"diesel", "heavy-fuel-oil", "gas-turbine", "hybrid",
                "electric", "other"}

\* emissionFactors[engineType] || 3.0
EmissionFactor10(engineType) ==
  CASE engineType = "diesel" -> 32
    [] engineType = "heavy-fuel-oil" -> 34
    [] engineType = "gas-turbine" -> 28
    [] engineType = "hybrid" -> 20
    [] engineType = "electric" -> 5
    [] OTHER -> 30

\* Math.round(x * 100) / 100 in hundredths, for x = n / d.
RoundQuotient(n, d) == (2 * n + d) \div (2 * d)

\* calculateEmissions(fuelConsumption, engineType), in ten-thousandths.
calculateEmissions(fuelConsumption, engineType) ==
  fuelConsumption * EmissionFactor10(engineType)

FuelEstimate(fuelConsumption, engineType) ==
  [estimatedConsumption |-> RoundQuotient(fuelConsumption, 10),
   emissionsEstimate |->
     RoundQuotient(calculateEmissions(fuelConsumption, engineType), 100)]

\* (await prediction.data())[0] * 1000 for a sigmoid output.
ConsumptionInputs ==
  {k \in Around({0, 5, 10, 123456, 500000, 999995}) : k >= 0}

FuelEstimateInputs ==
  {CalcIn("predictFuelConsumption",
          [fuelConsumption |-> k, engineType |-> t]) :
     k \in ConsumptionInputs, t \in EngineTypes}

ApplyFuelEstimate ==
  /\ Applied("predictFuelConsumption")
  /\ Result(FuelEstimate(calc.arg.fuelConsumption, calc.arg.engineType))

\* predictComponentMaintenance(shipData, componentType, componentIndex,
\* usageData) against fixed trained models.  The input of this.model is
\* computed from the arguments, so its output for them is one fixed pair
\* (mainOut).  The input of this.componentRiskModel starts with
\* componentAge / 25, and componentAge = shipAge * (0.5 + Math.random() * 0.5)
\* is drawn afresh in every call; the trained risk model is some function of
\* that input (riskModel), given here on componentAge * 2 * DrawSamples.
Draws == 0..(DrawSamples - 1)

ComponentAgeOf(shipAge, draw) == shipAge * (DrawSamples + draw)

ShipAges == {0, 10}

ComponentAges == {ComponentAgeOf(a, u) : a \in ShipAges, u \in Draws}

\* Math.round(riskData[0] * 100), on either side of the threshold 70.
FailureValues == {20, 80}

RiskModels == [ComponentAges -> FailureValues]

BaseCost(componentType) ==
  CASE componentType = "engine" -> 50000
    [] componentType = "hull" -> 80000
    [] componentType = "propulsion" -> 40000
    [] componentType = "navigation" -> 15000
    [] componentType = "electrical" -> 20000
    [] componentType = "safety" -> 10000
    [] OTHER -> 25000

\* Math.round(baseCost * (1 + riskScore / 100)); every base cost is a
\* multiple of 100.
estimateMaintenanceCost(componentType, riskScore) ==
  BaseCost(componentType) + (BaseCost(componentType) \div 100) * riskScore

\* The arguments are componentType, riskScore, daysUntilMaintenance and
\* failureProbability.
generateComponentRecommendations(type, risk, days, failure) ==
  (IF risk > 75 THEN <<"prioritize inspection">> ELSE <<>>)
    \o (IF days < 60 THEN <<"schedule within days">> ELSE <<>>)
    \o (IF failure > 70 THEN <<"consider replacement">> ELSE <<>>)
    \o (CASE type = "engine" /\ risk > 60 -> <<"oil analysis">>
           [] type = "hull" /\ risk > 50 -> <<"hull inspection">>
           [] type = "navigation" -> <<"verify calibration">>
           [] OTHER -> <<>>)

predictComponentMaintenance(a, draw) ==
  LET componentAge == ComponentAgeOf(a.shipAge, draw)
      daysUntilMaintenance == a.mainOut.daysUntilMaintenance
      riskScore == a.mainOut.riskScore
      failureProbability == a.riskModel[componentAge]
  IN [componentType |-> a.componentType,
      daysUntilMaintenance |-> daysUntilMaintenance,
      riskScore |-> riskScore,
      failureProbability |-> failureProbability,
      priority |-> calculatePriority(riskScore, daysUntilMaintenance),
      estimatedCost |-> estimateMaintenanceCost(a.componentType, riskScore),
      recommendedAction |->
        getRecommendedAction(riskScore, daysUntilMaintenance),
      recommendations |->
        generateComponentRecommendations(a.componentType, riskScore,
                                         daysUntilMaintenance,
                                         failureProbability)]

ComponentInputs ==
  {CalcIn("predictComponentMaintenance",
          [shipAge |-> a, componentType |-> ComponentTypes[i],
           mainOut |-> [daysUntilMaintenance |-> d, riskScore |-> r],
           riskModel |-> m]) :
     a \in ShipAges, i \in 1..Len(ComponentTypes),
     d \in DaysValues, r \in RiskScores, m \in RiskModels}

\* Two calls with the same arguments and the same trained models, one after
\* the other; each makes its own Math.random() draw.
ApplyComponentTwice ==
  /\ Applied("predictComponentMaintenance")
  /\ \E u1 \in Draws, u2 \in Draws :
       Result(<<predictComponentMaintenance(calc.arg, u1),
                predictComponentMaintenance(calc.arg, u2)>>)

\* MaintenanceForecaster.calculatePredictionConfidence(shipData, usageData),
\* in hundredths.  A date is held as its age in days; shipData may lack
\* lastMaintenance and usageData may lack lastMaintenanceDate.  usageData
\* carries `others` further populated fields.
Smaller(a, b) == IF a <= b THEN a ELSE b

Larger(a, b) == IF a >= b THEN a ELSE b

\* Object.keys(usageData).length
DataPoints(usageData) ==
  usageData.others + Count("lastMaintenanceDate" \in DOMAIN usageData)

maintenancePredictionConfidence(shipData, usageData) ==
  LET c0 == 75 + Smaller(15, DataPoints(usageData) * 2)
      c1 == IF Lt(shipData, "lastMaintenance", 90) THEN c0 + 5 ELSE c0
  IN Smaller(95, c1)

\* generateMockUsageData(ship): eight readings and
\* lastMaintenanceDate: ship.lastMaintenance || (180 days ago).
generateMockUsageData(ship) ==
  [others |-> 8,
   lastMaintenanceDate |->
     IF "lastMaintenance" \in DOMAIN ship THEN ship.lastMaintenance ELSE 180]

DateAges == {d \in Around({90}) \cup {10, 180} : d >= 0}

ShipRecords ==
  {[yearBuilt |-> 2010]}
    \cup {[yearBuilt |-> 2010, lastMaintenance |-> d] : d \in DateAges}

UsageRecords ==
  {[others |-> k] : k \in 0..8}
    \cup {[others |-> k, lastMaintenanceDate |-> d] :
            k \in 0..8, d \in DateAges}

MaintenanceConfidenceInputs ==
  {CalcIn("maintenancePredictionConfidence",
          [shipData |-> sh, usageData |-> u]) :
     sh \in ShipRecords, u \in UsageRecords}

\* predictComponentMaintenance: this.calculatePredictionConfidence(shipData,
\* usageData), the telemetry coming from any supplier.
ApplyMaintenanceConfidence ==
  /\ Applied("maintenancePredictionConfidence")
  /\ Result(maintenancePredictionConfidence(calc.arg.shipData,
                                            calc.arg.usageData))

MockedConfidenceInputs ==
  {CalcIn("generateMockUsageData", [shipData |-> sh]) : sh \in ShipRecords}

\* The maintenance controller: the telemetry is generated from the ship
\* record and both are handed to predictMaintenance.
ApplyMockedConfidence ==
  /\ Applied("generateMockUsageData")
  /\ LET usageData == generateMockUsageData(calc.arg.shipData)
     IN Result([usageData |-> usageData,
                confidence |->
                  maintenancePredictionConfidence(calc.arg.shipData,
                                                  usageData)])

\* calculateRouteComplexity(origin, destination).  A name is held as its
\* sequence of words; name.includes(region) is true when the words of the
\* region occur in it one after the other.  Coordinates are whole degrees.
ComplexRegions == {<<"Mediterranean">>, <<"Baltic">>, <<"Persian", "Gulf">>,
                   <<"Malacca", "Strait">>}

Includes(name, region) ==
  \E i \in 1..(Len(name) - Len(region) + 1) :
    SubSeq(name, i, i + Len(region) - 1) = region

\* place.name && complexRegions.some(region => place.name.includes(region))
InComplexRegion(place) ==
  /\ "name" \in DOMAIN place
  /\ \E region \in ComplexRegions : Includes(place.name, region)

Abs(x) == IF x < 0 THEN 0 - x ELSE x

calculateRouteComplexityOneMatch(origin, destination) ==
  LET c0 == 1
      c1 == IF InComplexRegion(origin) \/ InComplexRegion(destination)
              THEN c0 + 1 ELSE c0
      distance ==
        Abs(destination.coordinates.latitude - origin.coordinates.latitude)
          + Abs(destination.coordinates.longitude
                  - origin.coordinates.longitude)
      c3 == IF distance > 100 THEN c1 + 1 ELSE c1
      c4 == IF distance > 180 THEN c3 + 1 ELSE c3
  IN Smaller(5, c4)

calculateRouteComplexity(origin, destination) ==
  LET c0 == 1
      c1 == IF InComplexRegion(origin) THEN c0 + 1 ELSE c0
      c2 == IF InComplexRegion(destination) THEN c1 + 1 ELSE c1
      distance ==
        Abs(destination.coordinates.latitude - origin.coordinates.latitude)
          + Abs(destination.coordinates.longitude
                  - origin.coordinates.longitude)
      c3 == IF distance > 100 THEN c2 + 1 ELSE c2
      c4 == IF distance > 180 THEN c3 + 1 ELSE c3
  IN Smaller(5, c4)

PlaceNames ==
  {<<"Rotterdam">>, <<"Mediterranean">>, <<"Baltic", "Terminal">>,
   <<"Persian", "Gulf", "Port">>, <<"Gulf", "Persian">>,
   <<"Port", "Malacca", "Strait">>}

Origins ==
  LET at == [latitude |-> 20, longitude |-> 0 - 100]
  IN {[coordinates |-> at]}
       \cup {[name |-> n, coordinates |-> at] : n \in PlaceNames}

\* Destinations whose combined latitude and longitude difference from the
\* origin lies around the two thresholds, with or without a change of
\* latitude.
Destinations ==
  LET spots == {[latitude |-> 20 - dLat, longitude |-> d - dLat - 100] :
                  dLat \in {0, 50}, d \in Around({100, 180})}
                 \cup {[latitude |-> 20, longitude |-> 0 - 100]}
  IN {[coordinates |-> at] : at \in spots}
       \cup {[name |-> n, coordinates |-> at] : n \in PlaceNames, at \in spots}

RouteComplexityInputs ==
  {CalcIn("calculateRouteComplexity", [origin |-> o, destination |-> d]) :
     o \in Origins, d \in Destinations}

\* predictFuelConsumption: this.calculateRouteComplexity(voyage.origin,
\* voyage.destination)
ApplyRouteComplexity ==
  /\ Applied("calculateRouteComplexity")
  /\ Result(calculateRouteComplexity(calc.arg.origin, calc.arg.destination))


\* calculateOptimalMaintenanceWindows(predictions) and the prediction
\* fields it reads.  A prediction is built as predictComponentMaintenance
\* builds it from the model outputs riskScore and daysUntilMaintenance.
ComponentOutputsPriorityByRisk(componentType, riskScore, daysUntilMaintenance) ==
  [componentType |-> componentType,
   daysUntilMaintenance |-> daysUntilMaintenance,
   riskScore |-> riskScore,
   priority |-> calculatePriority(riskScore, 730),
   estimatedCost |-> estimateMaintenanceCost(componentType, riskScore),
   recommendedAction |->
     getRecommendedAction(riskScore, daysUntilMaintenance)]

ComponentOutputs(componentType, riskScore, daysUntilMaintenance) ==
  [componentType |-> componentType,
   daysUntilMaintenance |-> daysUntilMaintenance,
   riskScore |-> riskScore,
   priority |-> calculatePriority(riskScore, daysUntilMaintenance),
   estimatedCost |-> estimateMaintenanceCost(componentType, riskScore),
   recommendedAction |->
     getRecommendedAction(riskScore, daysUntilMaintenance)]

getMaintenanceDuration(componentType) ==
  CASE componentType = "engine" -> 7
    [] componentType = "hull" -> 10
    [] componentType = "propulsion" -> 5
    [] componentType = "navigation" -> 2
    [] componentType = "electrical" -> 3
    [] componentType = "safety" -> 1
    [] OTHER -> 3

\* [...predictions].sort((a, b) => a.daysUntilMaintenance -
\* b.daysUntilMaintenance), a stable sort.
RECURSIVE InsertByDays(_, _)
InsertByDays(p, sorted) ==
  IF sorted = <<>> THEN <<p>>
  ELSE IF Head(sorted).daysUntilMaintenance - p.daysUntilMaintenance > 0
         THEN <<p>> \o sorted
         ELSE <<Head(sorted)>> \o InsertByDays(p, Tail(sorted))

RECURSIVE SortByDays(_)
SortByDays(ps) ==
  IF ps = <<>> THEN <<>>
  ELSE InsertByDays(ps[Len(ps)], SortByDays(SubSeq(ps, 1, Len(ps) - 1)))

\* if (prediction.daysUntilMaintenance < 90)
InWindowInclusive(prediction) == prediction.daysUntilMaintenance <= 90

InWindow(prediction) == prediction.daysUntilMaintenance < 90

\* The loop over the sorted predictions, on currentWindow.
RECURSIVE FillWindow(_, _)
FillWindow(window, sortedPredictions) ==
  IF sortedPredictions = <<>> THEN window
  ELSE LET prediction == Head(sortedPredictions)
           next ==
             IF InWindow(prediction)
               THEN [components |->
                       Append(window.components, prediction.componentType),
                     totalCost |->
                       window.totalCost + prediction.estimatedCost,
                     duration |->
                       Larger(window.duration,
                              getMaintenanceDuration(prediction.componentType))]
               ELSE window
       IN FillWindow(next, Tail(sortedPredictions))

calculateOptimalMaintenanceWindows(predictions) ==
  LET currentWindow ==
        FillWindow([components |-> <<>>, totalCost |-> 0, duration |-> 0],
                   SortByDays(predictions))
  IN IF Len(currentWindow.components) > 0 THEN <<currentWindow>> ELSE <<>>

\* Six predictions in declaration order, each due around the 90-day limit,
\* with a common riskScore.
WindowDays == Around({90})

WindowRisks == {0, 50}

WindowInputs ==
  {CalcIn("calculateOptimalMaintenanceWindows",
          [i \in 1..Len(ComponentTypes) |->
             ComponentOutputs(ComponentTypes[i], r, days[i])]) :
     r \in WindowRisks, days \in [1..Len(ComponentTypes) -> WindowDays]}

\* predictMaintenance: maintenanceWindows:
\* this.calculateOptimalMaintenanceWindows(predictions)
ApplyWindows ==
  /\ Applied("calculateOptimalMaintenanceWindows")
  /\ Result(calculateOptimalMaintenanceWindows(calc.arg))


\* generateRecommendations(weatherScore, seaConditions); both are quotients.
DelayAdvice == <<"consider delaying departure", "monitor weather updates">>

CautionAdvice == <<"proceed with caution", "maintain communication">>

SeaAdvice == <<"reduce speed", "secure cargo">>

DefaultAdvice == <<"optimal conditions">>

generateRecommendationsSeaAboveOne(weatherScore, seaConditions) ==
  LET weather == IF Exceeds(weatherScore, 7) THEN DelayAdvice
                 ELSE IF Exceeds(weatherScore, 5) THEN CautionAdvice
                 ELSE <<>>
      sea == IF Exceeds(seaConditions, 1) THEN SeaAdvice ELSE <<>>
  IN IF weather \o sea = <<>> THEN DefaultAdvice ELSE weather \o sea

generateRecommendations(weatherScore, seaConditions) ==
  LET weather == IF Exceeds(weatherScore, 7) THEN DelayAdvice
                 ELSE IF Exceeds(weatherScore, 5) THEN CautionAdvice
                 ELSE <<>>
      sea == IF Exceeds(seaConditions, 3) THEN SeaAdvice ELSE <<>>
  IN IF weather \o sea = <<>> THEN DefaultAdvice ELSE weather \o sea

\* const seaConditions = Math.random() * 3: Math.random() is sampled at
\* draw / DrawSamples, which is below 1.
SeaConditionsOf(draw) == [num |-> 3 * draw, den |-> DrawSamples]

\* The fields of optimizeRoute's result that derive from the weather, the
\* sea-conditions draw and the first output of the regressor.  The output
\* layer is linear, so that output is any real number; it is held in
\* thousandths (rawSpeed), and optimalSpeed = output * 25 is reported as
\* Math.round(optimalSpeed * 10) / 10, held in tenths.
RouteEstimate(a, draw) ==
  LET weatherScore == calculateWeatherScore(a.weatherForecast)
      seaConditions == SeaConditionsOf(draw)
  IN [optimalSpeed |-> RoundQuotient(a.rawSpeed, 4),
      recommendations |-> generateRecommendations(weatherScore, seaConditions),
      confidence |-> 85]

\* Wind and waves of a storm in clear air: 6 points.
Gale == [windSpeed |-> 30, waveHeight |-> 5, visibility |-> 10]

RouteForecasts == SeqsUpTo({Calm, Gale, Storm}, MaxObs)

\* Raw outputs that denormalise to speeds around 8 and 22 knots, to the
\* nominal 15 knots, to nothing and to a negative speed.
RawSpeeds == Around({320, 880}) \cup {0 - 100, 0, 600, 1200}

RouteEstimateInputs ==
  {CalcIn("optimizeRoute", [weatherForecast |-> f, rawSpeed |-> r]) :
     f \in RouteForecasts, r \in RawSpeeds}

\* optimizeRoute with the model loaded, from the feature computation to the
\* returned estimate.
ApplyRouteEstimate ==
  /\ Applied("optimizeRoute")
  /\ \E draw \in Draws : Result(RouteEstimate(calc.arg, draw))


\* calculateUsageIntensity(usageData); the result is a quotient.
\* !usageData.operatingHoursPerDay holds for a missing field and for 0.
calculateUsageIntensity(usageData) ==
  IF "operatingHoursPerDay" \notin DOMAIN usageData
       \/ usageData.operatingHoursPerDay = 0
    THEN [num |-> 6, den |-> 10]
    ELSE IF usageData.operatingHoursPerDay > 24
           THEN [num |-> 1, den |-> 1]
           ELSE [num |-> usageData.operatingHoursPerDay, den |-> 24]

OperatingHours == {h \in Around({0, 24}) \cup {12, 18} : h >= 0}

UsageIntensityInputs ==
  {CalcIn("calculateUsageIntensity", u) :
     u \in {[others |-> 8]}
             \cup {[others |-> 7, operatingHoursPerDay |-> h] :
                     h \in OperatingHours}}

\* predictComponentMaintenance: this.calculateUsageIntensity(usageData)
ApplyUsageIntensity ==
  /\ Applied("calculateUsageIntensity")
  /\ Result(calculateUsageIntensity(calc.arg))


\* predictFuelConsumption: this.calculateWeatherImpact(voyage.weatherForecast)
WeatherImpactInputs ==
  {CalcIn("calculateWeatherImpact", f) : f \in FuelForecasts}

ApplyWeatherImpact ==
  /\ Applied("calculateWeatherImpact")
  /\ Result(calculateWeatherImpact(calc.arg))


\* The outputs of one predictComponentMaintenance call, for every pair the
\* main model can emit around the thresholds.
ComponentOutputsInputs ==
  {CalcIn("componentOutputs",
          [componentType |-> "engine", riskScore |-> r,
           daysUntilMaintenance |-> d]) :
     r \in RiskInputs, d \in DaysInputs}

ApplyComponentOutputs ==
  /\ Applied("componentOutputs")
  /\ Result(ComponentOutputs(calc.arg.componentType, calc.arg.riskScore,
                             calc.arg.daysUntilMaintenance))

\* ---------------------------------------------- helpers, one evaluation each
CalcInputs ==
  PriorityInputs \cup ActionInputs \cup WaypointInputs
    \cup WeatherScoreInputs \cup FuelConfidenceInputs \cup FuelEstimateInputs
    \cup ComponentInputs \cup MaintenanceConfidenceInputs
    \cup MockedConfidenceInputs \cup RouteComplexityInputs
    \cup WindowInputs
    \cup RouteEstimateInputs
    \cup UsageIntensityInputs
    \cup WeatherImpactInputs
    \cup ComponentOutputsInputs

InitCalc ==
  EstInit /\ FbInit /\ DbInit /\ PlanInit /\ FcInit /\ calc \in CalcInputs

NextCalc ==
  \/ ApplyPriority
  \/ ApplyAction
  \/ ApplyWaypoints
  \/ ApplyWeatherScore
  \/ ApplyFuelConfidence
  \/ ApplyFuelEstimate
  \/ ApplyComponentTwice
  \/ ApplyMaintenanceConfidence
  \/ ApplyMockedConfidence
  \/ ApplyRouteComplexity
  \/ ApplyWindows
  \/ ApplyRouteEstimate
  \/ ApplyUsageIntensity
  \/ ApplyWeatherImpact
  \/ ApplyComponentOutputs

SpecCalc == InitCalc /\ [][NextCalc]_vars

\* ------------------------------------------------------------------ claims
MainSlot(e) == SlotsOf(e)[1]

NoInitFailure(e) ==
  \A s \in SlotSet(e), i \in ModelIds : training[<<s, i>>] # "aborted"

\* C1: when estimator calls overlap during cold start, no call runs
\* model.predict on a model whose training has not completed.
NoPartialModelObserved == \A c \in Callers : ~call[c].partial

\* C2: with calls that do not overlap and an initialisation that succeeds,
\* initializeModel runs once, on the first call; once isModelLoaded is set
\* no call initialises again, the model objects and their trained
\* parameters never change, and every prediction uses that trained object.
InitOnceThenReuse ==
  /\ [](\A e \in Estimators : NoInitFailure(e) => inits[e] <= 1)
  /\ [][\A e \in Estimators :
         /\ (calls[e] = 0 /\ calls'[e] = 1) => inits'[e] = 1
         /\ isModelLoaded[e] =>
              /\ isModelLoaded'[e]
              /\ inits'[e] = inits[e]
              /\ \A s \in SlotSet(e) :
                   /\ model'[s] = model[s]
                   /\ training'[<<s, model[s]>>] = "trained"
         /\ \A c \in Callers :
              (call[c].res # "ok" /\ call'[c].res = "ok" /\ call'[c].est = e)
                => /\ call'[c].used = model'[MainSlot(e)]
                   /\ ~call'[c].partial]_vars

\* C2 witness: a second call found the model loaded and predicted with the
\* object the first call trained.
LaterCallReusedModel ==
  \E c \in Callers :
    /\ call[c].res = "ok"
    /\ ~call[c].inited
    /\ calls[call[c].est] = 2
    /\ inits[call[c].est] = 1
    /\ call[c].used = 1

\* C3: when initializeModel throws the call rejects without initialising
\* again, isModelLoaded is left as it was (false stays false), and a call
\* that finds isModelLoaded false runs initializeModel again.
InitFailureNotLatched ==
  [][\A c \in Callers :
       /\ (call[c].pc = "fit" /\ call'[c].err = "init")
            => /\ call'[c].pc = "done"
               /\ call'[c].res = "rejected"
               /\ isModelLoaded' = isModelLoaded
               /\ inits' = inits
       /\ \A e \in Estimators :
            (call[c].pc = "idle" /\ call'[c].pc # "idle" /\ call'[c].est = e
               /\ ~isModelLoaded[e])
              => /\ inits'[e] = inits[e] + 1
                 /\ call'[c].pc = "fit"]_vars

\* C3 witness: one call was rejected by a failed initialisation, the flag is
\* still false, and the next call to that estimator is initialising again.
RetryAfterInitFailure ==
  \E c, d \in Callers :
    /\ call[c].err = "init"
    /\ call[d].pc = "fit"
    /\ call[d].est = call[c].est
    /\ ~isModelLoaded[call[c].est]
    /\ inits[call[c].est] = 2
    /\ training[<<MainSlot(call[c].est), 1>>] = "aborted"

\* C4 as stated: every estimator's retraining routine has run once per 100
\* buffered entries.
RetrainEvery100 ==
  \A e \in Estimators : retrains[e] = Len(buffer[e]) \div 100

ClaimedBatch(e) == IF e = "fuel" THEN 50 ELSE 100

\* C4 amended: the retraining routine is invoked exactly by the append that
\* brings the buffer length to a multiple of the batch size, which is 100
\* for the route optimizer and the maintenance forecaster and 50 for the
\* fuel predictor; after n accepted submissions it has run floor(n/batch)
\* times.
RetrainEveryBatch ==
  /\ [](\A e \in Estimators :
         retrains[e] = Len(buffer[e]) \div ClaimedBatch(e))
  /\ [][\A e \in Estimators :
         /\ retrains'[e] \in {retrains[e], retrains[e] + 1}
         /\ retrains'[e] = retrains[e] + 1
              <=> /\ Len(buffer'[e]) = Len(buffer[e]) + 1
                  /\ Len(buffer'[e]) % ClaimedBatch(e) = 0]_vars

\* C4 witness: the fuel predictor's 100th entry has just triggered its
\* second retraining.
FuelRetrainedAt100 ==
  \E c \in Callers :
    /\ fb[c].pc = "retrain"
    /\ fb[c].est = "fuel"
    /\ Len(buffer["fuel"]) = 100
    /\ retrains["fuel"] = 2

\* C5: the feedback buffers are append-only under every interleaving of
\* submissions: a submission that does not throw adds exactly one entry, a
\* submission that throws before the push adds none, and no step removes,
\* replaces or repeats an entry.
BuffersAppendOnly ==
  /\ [](\A e \in Estimators :
         Cardinality({buffer[e][i] : i \in 1..Len(buffer[e])}) = Len(buffer[e]))
  /\ [][\A e \in Estimators :
         LET starting == {c \in Callers : fb[c].pc = "idle" /\ fb'[c].pc # "idle"
                                           /\ fb'[c].est = e}
         IN /\ Len(buffer'[e]) >= Len(buffer[e])
            /\ SubSeq(buffer'[e], 1, Len(buffer[e])) = buffer[e]
            /\ \A c \in starting :
                 IF fb'[c].threw
                   THEN buffer'[e] = buffer[e] /\ ~fb'[c].pushed
                   ELSE Len(buffer'[e]) = Len(buffer[e]) + 1 /\ fb'[c].pushed
            /\ starting = {} => buffer'[e] = buffer[e]]_vars

\* C5 witness: while one submission waits on the retraining stub, another
\* submission to the same estimator has appended behind it.
AppendDuringRetrainAwait ==
  \E c, d \in Callers :
    /\ c # d
    /\ fb[c].pc = "retrain"
    /\ fb[d].pushed
    /\ fb[d].est = fb[c].est
    /\ Len(buffer[fb[c].est]) = BatchSize(fb[c].est) + 1

\* C6: the three feedback operations never reject, whatever is thrown
\* inside them.
FeedbackNeverRejects ==
  \A c \in Callers :
    /\ fb[c].res # "rejected"
    /\ fb[c].pc = "done" => fb[c].res = "resolved"

\* C6 witness: a submission threw while its features were extracted and the
\* operation still resolved.
ThrowingFeedbackResolved ==
  \E c \in Callers :
    fb[c].pc = "done" /\ fb[c].threw /\ fb[c].res = "resolved"

\* C7: no feedback step changes a model object, its trained parameters or
\* isModelLoaded, so what predict computes from them stays the same.
FeedbackLeavesModelsAlone ==
  [][/\ model' = model
     /\ training' = training
     /\ isModelLoaded' = isModelLoaded]_vars

\* C7 witness: the route optimizer's retraining routine has run on a loaded,
\* trained model.
RetrainedWhileLoaded ==
  /\ retrains["route"] >= 1
  /\ isModelLoaded["route"]
  /\ training[<<"route", model["route"]>>] = "trained"

\* What the claims call a request that fails validation.
LacksField(b) ==
  b.shipId = 0 \/ b.origin = "missing" \/ b.destination = "missing"
    \/ ~b.departureTime \/ ~b.cargoLoad

UnknownShip(b) == ~LacksField(b) /\ ships[b.shipId] = "none"

LacksCoordinates(b) ==
  /\ ~LacksField(b)
  /\ ~UnknownShip(b)
  /\ (b.origin = "noCoords" \/ b.destination = "noCoords")

FailsValidation(b) == LacksField(b) \/ UnknownShip(b) \/ LacksCoordinates(b)

PlanPipelineOrder ==
  /\ [](\A r \in Callers :
         /\ req[r].fuel # "none" =>
              /\ req[r].route = "ok"
              /\ req[r].routeOut.est = "route"
              /\ req[r].routeOut.res = "ok"
              /\ req[r].routeData = req[r].routeOut
         /\ (req[r].pc = "save" \/ req[r].saved) =>
              req[r].route = "ok" /\ req[r].fuel = "ok"
         /\ (req[r].route = "rejected" \/ req[r].fuel = "rejected") =>
              /\ ~req[r].saved
              /\ req[r].pc = "sent"
              /\ req[r].resp = Forwarded)
  /\ [][(calls'["fuel"] # calls["fuel"] =>
           \E r \in Callers : /\ req[r].pc = "route"
                              /\ call[r].pc = "done"
                              /\ call[r].est = "route"
                              /\ call[r].res = "ok"
                              /\ req'[r].pc = "fuel")
        /\
        (voyages' # voyages =>
           \E r \in Callers :
             /\ req[r].pc = "save"
             /\ req[r].route = "ok" /\ req[r].fuel = "ok"
             /\ req'[r].saved
             /\ voyages' = Append(voyages, [shipId |-> req[r].body.shipId,
                                            status |-> "planned"]))]_vars

\* C9 witness: a request went through both estimators, the fuel predictor
\* got the route optimizer's result, and the Voyage was saved.
PlannedThroughBothEstimators ==
  \E r \in Callers :
    /\ req[r].saved /\ req[r].resp = Resp201
    /\ req[r].routeData.est = "route"
    /\ calls["route"] >= 1 /\ calls["fuel"] >= 1
    /\ voyages = <<[shipId |-> 1, status |-> "planned"]>>

\* C10: every forecast returned by predictMaintenance has exactly 6
\* predictions, one for each of engine, hull, navigation, safety,
\* electrical and propulsion, ordered by riskScore non-increasing.
ForecastSixSortedByRisk ==
  \A c \in Callers : fc[c].pc = "done" =>
    LET ps == fc[c].forecast.predictions
    IN /\ Len(ps) = 6
       /\ \A t \in {"engine", "hull", "navigation", "safety", "electrical",
                     "propulsion"} :
            Cardinality({i \in 1..Len(ps) : ps[i].componentType = t}) = 1
       /\ \A i \in 1..(Len(ps) - 1) : ps[i].riskScore >= ps[i + 1].riskScore

\* C10 witness: a returned forecast whose components came out of the models
\* in increasing risk order, so the sort had to reorder them.
ForecastReordered ==
  \E c \in Callers :
    /\ fc[c].pc = "done"
    /\ fc[c].predictions[1].riskScore < fc[c].predictions[6].riskScore
    /\ fc[c].forecast.predictions[1].componentType # "engine"
    /\ fc[c].forecast.predictions # fc[c].predictions

\* Position of a component type in the declaration order of componentTypes.
DeclaredAt(t) == CHOOSE i \in 1..Len(ComponentTypes) : ComponentTypes[i] = t

\* C11: nextCriticalMaintenance of a returned forecast is predictions[0] of
\* the sorted array; it has the minimum daysUntilMaintenance or the maximum
\* riskScore of the six, and among the predictions that tie with it on
\* riskScore it is the one declared first in componentTypes.
NextCriticalFirstAmongTies ==
  \A c \in Callers : fc[c].pc = "done" =>
    LET made == fc[c].predictions
        nx == fc[c].forecast.nextCriticalMaintenance
    IN /\ nx = fc[c].forecast.predictions[1]
       /\ \/ \A i \in 1..Len(made) :
               nx.daysUntilMaintenance <= made[i].daysUntilMaintenance
          \/ \A i \in 1..Len(made) : nx.riskScore >= made[i].riskScore
       /\ \A i \in 1..Len(made) :
            made[i].riskScore = nx.riskScore =>
              DeclaredAt(nx.componentType) <= i

\* C11 witness: hull and navigation tie on the highest riskScore, the engine
\* is below them and is due sooner, and hull is returned.
TiedRiskResolvedByDeclaration ==
  \E c \in Callers :
    /\ fc[c].pc = "done"
    /\ fc[c].predictions[1].riskScore < fc[c].predictions[2].riskScore
    /\ fc[c].predictions[2].riskScore = fc[c].predictions[3].riskScore
    /\ fc[c].predictions[1].daysUntilMaintenance
         < fc[c].predictions[2].daysUntilMaintenance
    /\ fc[c].forecast.nextCriticalMaintenance.componentType = "hull"

\* The band a value falls in: the number of listed thresholds it crosses.
Above(x, ts) == Cardinality({t \in ts : x > t})

Below(x, ts) == Cardinality({t \in ts : x < t})

PriorityBands == <<"low", "medium", "high", "critical">>

\* C12: calculatePriority depends on its two arguments only and returns
\* critical if riskScore > 80 or days < 30, otherwise high if riskScore > 60
\* or days < 90, otherwise medium if riskScore > 40 or days < 180, otherwise
\* low; at riskScore 80, 60, 40 and days 30, 90, 180 the lower band applies.
PriorityBandsAsStated ==
  Returned("calculatePriority") =>
    LET r == calc.arg.riskScore
        d == calc.arg.daysUntilMaintenance
    IN /\ calc.out = PriorityBands[1 + Larger(Above(r, {40, 60, 80}),
                                               Below(d, {30, 90, 180}))]
       /\ (r = 80 /\ d >= 30) => calc.out # "critical"
       /\ (r = 60 /\ d >= 90) => calc.out \in {"medium", "low"}
       /\ (r = 40 /\ d >= 180) => calc.out = "low"
       /\ (d = 30 /\ r <= 80) => calc.out # "critical"
       /\ (d = 90 /\ r <= 60) => calc.out \in {"medium", "low"}
       /\ (d = 180 /\ r <= 40) => calc.out = "low"

\* C12 witness: riskScore 80 with 30 days is high, not critical.
PriorityAtBoundary ==
  /\ Returned("calculatePriority")
  /\ calc.arg = [riskScore |-> 80, daysUntilMaintenance |-> 30]
  /\ calc.out = "high"

ActionBands == <<"monitor", "plan_maintenance", "schedule_soon",
                 "immediate_action">>

\* C13: getRecommendedAction depends on its two arguments only and returns
\* immediate_action if riskScore > 85 or days < 15, otherwise schedule_soon
\* if riskScore > 70 or days < 45, otherwise plan_maintenance if
\* riskScore > 50 or days < 120, otherwise monitor.
ActionBandsAsStated ==
  Returned("getRecommendedAction") =>
    calc.out = ActionBands[1 + Larger(Above(calc.arg.riskScore, {50, 70, 85}),
                                      Below(calc.arg.daysUntilMaintenance,
                                            {15, 45, 120}))]

\* C13 witness: a low riskScore with maintenance due in 44 days gives
\* schedule_soon, through the days threshold alone.
ActionFromDaysAlone ==
  /\ Returned("getRecommendedAction")
  /\ calc.arg = [riskScore |-> 0, daysUntilMaintenance |-> 44]
  /\ calc.out = "schedule_soon"

\* A waypoint coordinate w (1e-6 degree) is the given coordinate x (1e-7
\* degree) up to the rounding to six decimals.
RoundedFrom(w, x) == 10 * w - x \in (0 - 4)..5

\* The rounded linear interpolation, stated on its own: the multiple of 1e-6
\* nearest to the interpolated value n (1e-8 degree), the upper one at a tie.
NearestMicro(w, n) == 100 * w - n \in (0 - 49)..50

\* The geometry of the waypoints: eleven of them, each the rounded linear
\* interpolation at ratio i/10, the first at the origin, the last at the
\* destination, all at speed 15.
WaypointsInterpolate ==
  Returned("generateWaypoints") =>
    LET w == calc.out
        a == calc.arg.start
        b == calc.arg.end
    IN /\ Len(w) = 11
       /\ \A i \in 0..10 :
            /\ NearestMicro(w[i + 1].latitude,
                            Interpolated(a.latitude, b.latitude, i))
            /\ NearestMicro(w[i + 1].longitude,
                            Interpolated(a.longitude, b.longitude, i))
            /\ w[i + 1].speed = 15
       /\ RoundedFrom(w[1].latitude, a.latitude)
       /\ RoundedFrom(w[1].longitude, a.longitude)
       /\ RoundedFrom(w[11].latitude, b.latitude)
       /\ RoundedFrom(w[11].longitude, b.longitude)

\* C14: every route estimate has exactly 11 waypoints, waypoint i being the
\* linear interpolation of origin and destination at ratio i/10 rounded to
\* six decimals (so the first is the origin and the last the destination),
\* each with speed 15 and with timestamps exactly one hour apart.
WaypointsHourlyExactly ==
  /\ WaypointsInterpolate
  /\ Returned("generateWaypoints") =>
       \A i \in 1..(Len(calc.out) - 1) :
         calc.out[i + 1].timestamp - calc.out[i].timestamp = HourMs

\* What does hold of the timestamps: consecutive ones are an hour apart plus
\* the clock ticks that fell between the two reads.
WaypointsHourlyUpToTicks ==
  /\ WaypointsInterpolate
  /\ Returned("generateWaypoints") =>
       \A i \in 1..(Len(calc.out) - 1) :
         calc.out[i + 1].timestamp - calc.out[i].timestamp
           \in HourMs..(HourMs + MaxTicks)

\* A route between two distinct positions whose loop ran across a clock
\* tick.
WaypointsAcrossTick ==
  /\ Returned("generateWaypoints")
  /\ calc.arg.start.latitude = 40712800
  /\ calc.arg.end.latitude = 15507400
  /\ \E i \in 1..10 :
       calc.out[i + 1].timestamp - calc.out[i].timestamp = HourMs + 1

\* The points the statement gives to one observation; a missing reading
\* crosses no threshold.
Reading(o, f, missing) == IF f \in DOMAIN o THEN o[f] ELSE missing

StatedPoints(o) ==
  Above(Reading(o, "windSpeed", 0), {10, 15, 25})
    + Above(Reading(o, "waveHeight", 0), {1, 2, 4})
    + Below(Reading(o, "visibility", 5), {1, 5})

RECURSIVE StatedTotal(_)
StatedTotal(f) ==
  IF f = <<>> THEN 0 ELSE StatedPoints(Head(f)) + StatedTotal(Tail(f))

\* C15: calculateWeatherScore is within [0, 10] for every sequence of
\* observations, is 3 for an empty sequence, and otherwise is the average
\* over the observations of the stated points, capped at 10.
WeatherScoreAverageCapped ==
  Returned("calculateWeatherScore") =>
    LET f == calc.arg
        q == calc.out
    IN /\ q.den > 0
       /\ 0 <= q.num /\ q.num <= 10 * q.den
       /\ f = <<>> => q.num = 3 * q.den
       /\ f # <<>> =>
            IF StatedTotal(f) > 10 * Len(f)
              THEN q.num = 10 * q.den
              ELSE q.num * Len(f) = StatedTotal(f) * q.den

\* C15 witness: a storm, a calm and a wind-only report average to 10/3.
WeatherScoreAveraged ==
  /\ Returned("calculateWeatherScore")
  /\ calc.arg = <<Storm, Calm, WindOnly>>
  /\ calc.out = [num |-> 10, den |-> 3]

\* C16: the fuel confidence is 0.8, minus 0.1 if weatherImpact > 7, minus a
\* further 0.1 if weatherImpact > 9, minus 0.1 if totalDistance < 50 or
\* totalDistance > 5000, plus 0.05 if the ship is less than 5 years old,
\* clamped to [0.5, 0.95]; so it always lies in [0.5, 0.95].
FuelConfidenceAsStated ==
  Returned("fuelPredictionConfidence") =>
    LET w == calculateWeatherImpact(calc.arg.weatherForecast)
        x == calc.arg.totalDistance
        raw == 80 - 10 * Count(Exceeds(w, 7)) - 10 * Count(Exceeds(w, 9))
                  - 10 * Count(x < 50 \/ x > 5000)
                  + 5 * Count(calc.arg.shipAge < 5)
    IN /\ calc.out \in 50..95
       /\ calc.out = Larger(50, IF raw > 95 THEN 95 ELSE raw)

\* C16 witness: a four-year-old ship on a 49 mile route gets 0.75.
FuelConfidenceShortRouteNewShip ==
  /\ Returned("fuelPredictionConfidence")
  /\ calc.arg.totalDistance = 49
  /\ calc.arg.shipAge = 4
  /\ calc.out = 75

\* C17: the reported emissionsEstimate equals the reported
\* estimatedConsumption times the CO2 factor of the engine type (diesel 3.2,
\* heavy-fuel-oil 3.4, gas-turbine 2.8, hybrid 2.0, electric 0.5) exactly.
EmissionsExactlyConsumptionTimesFactor ==
  (Returned("predictFuelConsumption") /\ calc.arg.engineType # "other") =>
    10 * calc.out.emissionsEstimate
      = calc.out.estimatedConsumption * EmissionFactor10(calc.arg.engineType)

\* What does hold: the reported emissions are the unrounded consumption
\* times the factor, rounded to two decimals on its own.
EmissionsRoundedSeparately ==
  Returned("predictFuelConsumption") =>
    LET e == calc.arg.fuelConsumption * EmissionFactor10(calc.arg.engineType)
    IN 100 * calc.out.emissionsEstimate - e \in (0 - 49)..50

\* C18: two calls of predictMaintenance with identical arguments, the same
\* trained models and no feedback in between return identical predictions
\* (componentType, daysUntilMaintenance, riskScore, failureProbability,
\* priority, recommendedAction, estimatedCost and recommendations).
RepeatedPredictionIdentical ==
  Returned("predictComponentMaintenance") => calc.out[1] = calc.out[2]

\* What does hold: the two calls agree on everything that derives from
\* this.model, and on everything when the ship's age is 0.
RepeatedPredictionSameButFailure ==
  Returned("predictComponentMaintenance") =>
    /\ \A f \in {"componentType", "daysUntilMaintenance", "riskScore",
                  "priority", "recommendedAction", "estimatedCost"} :
         calc.out[1][f] = calc.out[2][f]
    /\ calc.arg.shipAge = 0 => calc.out[1] = calc.out[2]

\* C19: for usage telemetry with 8 populated fields and a
\* lastMaintenanceDate less than 90 days old the maintenance confidence is
\* 0.75 + min(0.15, 0.02 x 8) + 0.05 capped at 0.95, i.e. 0.95: the recency
\* bonus is granted whenever the telemetry's last maintenance date is
\* within 90 days, and the confidence never exceeds 0.95.
RecencyBonusFromTelemetry ==
  Returned("maintenancePredictionConfidence") =>
    /\ calc.out <= 95
    /\ (/\ DataPoints(calc.arg.usageData) = 8
        /\ Lt(calc.arg.usageData, "lastMaintenanceDate", 90)) =>
         calc.out = 95

\* What does hold: the bonus follows the ship record's lastMaintenance, and
\* the confidence never exceeds 0.95; with telemetry generated by the
\* controller from the ship record the two dates agree whenever the
\* telemetry's is within 90 days, and the confidence is then 0.95.
RecencyBonusFromShipRecord ==
  /\ Returned("maintenancePredictionConfidence") =>
       /\ calc.out <= 95
       /\ DataPoints(calc.arg.usageData) = 8 =>
            calc.out = (IF Lt(calc.arg.shipData, "lastMaintenance", 90)
                          THEN 95 ELSE 90)
  /\ Returned("generateMockUsageData") =>
       (calc.out.usageData.lastMaintenanceDate < 90 =>
          calc.out.confidence = 95)

\* |dLat| + |dLon| between the two places of a route.
CombinedDelta(a) ==
  Abs(a.destination.coordinates.latitude - a.origin.coordinates.latitude)
    + Abs(a.destination.coordinates.longitude
            - a.origin.coordinates.longitude)

\* C20 as stated: calculateRouteComplexity is 1, plus 1 if the origin or the
\* destination name contains one of the region names (a single +1 for name
\* matching), plus 1 if |dLat| + |dLon| > 100, plus 1 more if it is > 180,
\* capped at 5; an integer in 1..5.
RouteComplexitySingleNameBonus ==
  Returned("calculateRouteComplexity") =>
    /\ calc.out \in 1..5
    /\ calc.out =
         Smaller(5, 1 + Count(InComplexRegion(calc.arg.origin)
                                \/ InComplexRegion(calc.arg.destination))
                      + Above(CombinedDelta(calc.arg), {100, 180}))

\* C20: calculateRouteComplexity is 1, plus 1 if the origin name contains
\* one of the region names, plus 1 if the destination name does, plus 1 if
\* |dLat| + |dLon| > 100, plus 1 more if it is > 180, capped at 5; an
\* integer in 1..5.
RouteComplexityNameBonusEach ==
  Returned("calculateRouteComplexity") =>
    /\ calc.out \in 1..5
    /\ calc.out =
         Smaller(5, 1 + Count(InComplexRegion(calc.arg.origin))
                      + Count(InComplexRegion(calc.arg.destination))
                      + Above(CombinedDelta(calc.arg), {100, 180}))

\* C20 witness: both names lie in a listed region and the places are more
\* than 180 degrees apart; the complexity is 5.
RouteComplexityBothNamesMatch ==
  /\ Returned("calculateRouteComplexity")
  /\ InComplexRegion(calc.arg.origin)
  /\ InComplexRegion(calc.arg.destination)
  /\ CombinedDelta(calc.arg) > 180
  /\ calc.out = 5

\* The sum of f over a finite set of indices.
RECURSIVE SumOver(_, _)
SumOver(I, f) ==
  IF I = {} THEN 0
  ELSE LET i == CHOOSE j \in I : TRUE IN f[i] + SumOver(I \ {i}, f)

\* The predictions of the evaluated call that are due within 90 days.
DueSoon == {i \in 1..Len(calc.arg) : calc.arg[i].daysUntilMaintenance < 90}

\* C21: calculateOptimalMaintenanceWindows returns at most one window; it is
\* present iff some prediction has daysUntilMaintenance < 90, its components
\* are exactly the component types due within 90 days, its totalCost is the
\* sum of their estimatedCost and its duration the maximum of their nominal
\* durations (engine 7, hull 10, propulsion 5, navigation 2, electrical 3,
\* safety 1).
SingleWindowOfDueComponents ==
  Returned("calculateOptimalMaintenanceWindows") =>
    LET ws == calc.out
        nominal == [t \in {"engine", "hull", "propulsion", "navigation",
                           "electrical", "safety"} |->
                      CASE t = "engine" -> 7 [] t = "hull" -> 10
                        [] t = "propulsion" -> 5 [] t = "navigation" -> 2
                        [] t = "electrical" -> 3 [] t = "safety" -> 1]
    IN /\ Len(ws) <= 1
       /\ Len(ws) = 1 <=> DueSoon # {}
       /\ Len(ws) = 1 =>
            LET w == ws[1]
            IN /\ Len(w.components) = Cardinality(DueSoon)
               /\ {w.components[k] : k \in 1..Len(w.components)}
                    = {calc.arg[i].componentType : i \in DueSoon}
               /\ w.totalCost
                    = SumOver(DueSoon, [i \in DueSoon |->
                                          calc.arg[i].estimatedCost])
               /\ \A i \in DueSoon :
                    w.duration >= nominal[calc.arg[i].componentType]
               /\ \E i \in DueSoon :
                    w.duration = nominal[calc.arg[i].componentType]

\* C21 witness: engine and safety are due in 89 days, the others in 90 or
\* more; the window holds the two, lasts 7 days and costs their sum.
WindowOfEngineAndSafety ==
  /\ Returned("calculateOptimalMaintenanceWindows")
  /\ DueSoon = {1, 4}
  /\ calc.arg[2].daysUntilMaintenance = 90
  /\ Len(calc.out) = 1
  /\ calc.out[1].components = <<"engine", "safety">>
  /\ calc.out[1].duration = 7
  /\ calc.out[1].totalCost = 60000

\* C22: every route estimate has optimalSpeed within [8, 22] knots, whatever
\* raw value the regressor emits.
OptimalSpeedWithinBounds ==
  Returned("optimizeRoute") => calc.out.optimalSpeed \in 80..220

\* What does hold: the reported speed is the raw output times 25, rounded to
\* one decimal, and so follows the raw output outside [8, 22] as well.
OptimalSpeedFollowsRawOutput ==
  Returned("optimizeRoute") =>
    4 * calc.out.optimalSpeed - calc.arg.rawSpeed \in (0 - 1)..2

\* C28: the seaConditions passed to generateRecommendations is always below
\* 3, so the reduce-speed and secure-cargo advisories never appear; the
\* recommendations are exactly the delay pair when weatherScore > 7, the
\* caution pair when 5 < weatherScore <= 7, the single default message
\* otherwise, and are never empty.
RecommendationsFromWeatherOnly ==
  Returned("optimizeRoute") =>
    LET w == calculateWeatherScore(calc.arg.weatherForecast)
        recs == calc.out.recommendations
    IN /\ recs # <<>>
       /\ \A k \in 1..Len(recs) :
            recs[k] \notin {"reduce speed", "secure cargo"}
       /\ w.num > 7 * w.den =>
            recs = <<"consider delaying departure", "monitor weather updates">>
       /\ (w.num > 5 * w.den /\ w.num <= 7 * w.den) =>
            recs = <<"proceed with caution", "maintain communication">>
       /\ w.num <= 5 * w.den => recs = <<"optimal conditions">>

\* C28 witness: the estimate for a storm followed by a gale (score 7) carries
\* the caution pair and nothing else.
CautionForStormAndGale ==
  /\ Returned("optimizeRoute")
  /\ calc.arg.weatherForecast = <<Storm, Gale>>
  /\ calc.out.recommendations
       = <<"proceed with caution", "maintain communication">>

\* C23: calculateUsageIntensity returns min(1, operatingHoursPerDay / 24)
\* for every operatingHoursPerDay >= 0 supplied in the telemetry, 0 hours
\* giving 0; the default 0.6 is used only when the field is absent.
UsageIntensityFromSuppliedHours ==
  Returned("calculateUsageIntensity") =>
    IF "operatingHoursPerDay" \in DOMAIN calc.arg
      THEN LET h == calc.arg.operatingHoursPerDay
           IN calc.out.num * 24 = calc.out.den * (IF h > 24 THEN 24 ELSE h)
      ELSE calc.out.num * 10 = calc.out.den * 6

\* What does hold: the same, except that 0 hours is treated as absent.
UsageIntensityZeroAsAbsent ==
  Returned("calculateUsageIntensity") =>
    IF "operatingHoursPerDay" \in DOMAIN calc.arg
         /\ calc.arg.operatingHoursPerDay # 0
      THEN LET h == calc.arg.operatingHoursPerDay
           IN calc.out.num * 24 = calc.out.den * (IF h > 24 THEN 24 ELSE h)
      ELSE calc.out.num * 10 = calc.out.den * 6

\* C27: calculateWeatherImpact never returns more than 7, so neither weather
\* penalty of the fuel confidence applies: the confidence is 0.80, less 0.10
\* for a route shorter than 50 or longer than 5000, plus 0.05 for a ship
\* younger than 5 years, hence one of 0.70, 0.75, 0.80, 0.85.
WeatherImpactAtMostSeven ==
  /\ Returned("calculateWeatherImpact") => ~Exceeds(calc.out, 7)
  /\ Returned("fuelPredictionConfidence") =>
       /\ ~Exceeds(calculateWeatherImpact(calc.arg.weatherForecast), 7)
       /\ calc.out \in {70, 75, 80, 85}
       /\ calc.out
            = 80 - (IF calc.arg.totalDistance < 50
                         \/ calc.arg.totalDistance > 5000 THEN 10 ELSE 0)
                 + (IF calc.arg.shipAge < 5 THEN 5 ELSE 0)

\* C27 witness: a forecast of nothing but the heaviest observations has the
\* impact 7 exactly.
WeatherImpactOfHurricanes ==
  /\ Returned("calculateWeatherImpact")
  /\ calc.arg = <<Hurricane, Hurricane>>
  /\ calc.out = [num |-> 14, den |-> 2]

ActionMatchesPriority(p) ==
  /\ p.recommendedAction = "immediate_action" => p.priority = "critical"
  /\ p.recommendedAction = "schedule_soon" => p.priority \in {"high", "critical"}
  /\ p.priority = "low" => p.recommendedAction = "monitor"

\* C29: priority and recommendedAction of a component prediction agree:
\* immediate_action only with critical, schedule_soon only with high or
\* critical, low only with monitor; and every component placed in a
\* maintenance window has the priority high or critical.
PriorityAndActionConsistent ==
  /\ Returned("componentOutputs") => ActionMatchesPriority(calc.out)
  /\ Returned("calculateOptimalMaintenanceWindows") =>
       /\ \A i \in 1..Len(calc.arg) : ActionMatchesPriority(calc.arg[i])
       /\ \A w \in 1..Len(calc.out) :
            \A c \in 1..Len(calc.out[w].components) :
              \A i \in 1..Len(calc.arg) :
                calc.arg[i].componentType = calc.out[w].components[c]
                  => calc.arg[i].priority \in {"high", "critical"}

\* C29 witness: a component of no risk that is due in 14 days is critical
\* and gets immediate_action.
ImmediateActionByDaysIsCritical ==
  /\ Returned("componentOutputs")
  /\ calc.arg.riskScore = 0
  /\ calc.arg.daysUntilMaintenance = 14
  /\ calc.out.recommendedAction = "immediate_action"
  /\ calc.out.priority = "critical"

\* A step of the deleteShip request on the ship connection.
DeleteShipStep ==
  /\ req[ShipCaller].pc \in {"deleteCount", "deleteUpdate"}
  /\ req'[ShipCaller] # req[ShipCaller]

\* deleteShip removes no ship record and modifies no voyage or maintenance
\* record; a count that finds an active voyage is answered with 400 and
\* leaves the ship as it was; an update that finds the ship sets its status
\* to 'decommissioned'.
DeleteShipEffects ==
  LET shipId == req[ShipCaller].body.shipId
  IN /\ voyages' = voyages
     /\ maintenance' = maintenance
     /\ \A i \in ShipIds : ships[i] # "none" => ships'[i] # "none"
     /\ \A i \in ShipIds \ {shipId} : ships'[i] = ships[i]
     /\ (req[ShipCaller].pc = "deleteCount" /\ ActiveVoyages(shipId) > 0) =>
          /\ ships' = ships
          /\ req'[ShipCaller].pc = "sent"
          /\ req'[ShipCaller].resp.code = 400
     /\ (req[ShipCaller].pc = "deleteUpdate" /\ ships[shipId] # "none") =>
          ships'[shipId] = "decommissioned"

\* C24: deleteShip never changes a ship's status while that ship has a
\* voyage in status 'planned' or 'in-progress' (it answers 400 and leaves
\* the ship unchanged); otherwise it sets the status to 'decommissioned'
\* without removing the ship record; it never modifies a voyage or
\* maintenance record.
DeleteShipNeverWithActiveVoyage ==
  [][DeleteShipStep =>
       /\ DeleteShipEffects
       /\ ships' # ships => ActiveVoyages(req[ShipCaller].body.shipId) = 0]_vars

\* What does hold: the effects of deleteShip, with the guard taken at the
\* time of the count.
DeleteShipGuardedAtCount == [][DeleteShipStep => DeleteShipEffects]_vars

\* C30: whatever createShip, planVoyage, updateVoyageStatus, submitFeedback
\* and deleteShip requests were served, a ship whose status is
\* 'decommissioned' has no voyage in status 'planned' or 'in-progress'.
DecommissionedHasNoActiveVoyage ==
  \A i \in ShipIds : ships[i] = "decommissioned" => ActiveVoyages(i) = 0

\* The submitFeedback request in progress has its voyage found and
\* completed.
FeedbackVoyageCompleted ==
  /\ req[VoyageCaller].pc \in {"feedbackRead", "feedbackRoute"}
  /\ req[VoyageCaller].body.voyageId \in 1..Len(voyages)
  /\ voyages[req[VoyageCaller].body.voyageId].status = "completed"

\* C26: an entry reaches the route optimizer's buffer only from a
\* submitFeedback request that supplied actualRoute, and the fuel
\* predictor's buffer only from one that supplied actualFuelConsumption, in
\* both cases with the voyage found and updated to 'completed'; a
\* submitFeedback request on the way to its 400 or 404 touches no buffer and
\* no voyage; and an entry reaches the maintenance forecaster only from an
\* updateMaintenance request that sets status 'completed' with a
\* completedDate on a record that exists.
FeedbackOnlyWhenSupplied ==
  [][/\ buffer'["route"] # buffer["route"] =>
          FeedbackVoyageCompleted /\ req[VoyageCaller].body.actualRoute
     /\ buffer'["fuel"] # buffer["fuel"] =>
          /\ FeedbackVoyageCompleted
          /\ req[VoyageCaller].body.actualFuelConsumption
     /\ (req'[VoyageCaller].pc = "sent" /\ req[VoyageCaller].pc # "sent"
           /\ req'[VoyageCaller].body.op = "submitFeedback"
           /\ req'[VoyageCaller].resp.code \in {400, 404}) =>
          /\ req[VoyageCaller].pc \in {"idle", "feedbackFind"}
          /\ buffer' = buffer
          /\ voyages' = voyages
     /\ (req[VoyageCaller].pc = "feedbackFind"
           /\ req'[VoyageCaller] # req[VoyageCaller]) =>
          buffer' = buffer /\ voyages' = voyages
     /\ buffer'["maint"] # buffer["maint"] =>
          /\ req[ShipCaller].pc = "maintenanceUpdate"
          /\ req[ShipCaller].body.status = "completed"
          /\ req[ShipCaller].body.completedDate
          /\ req[ShipCaller].body.maintenanceId \in 1..Len(maintenance)]_vars

\* C26 witness: feedback that carried the fuel consumption but no route has
\* completed the voyage and fed the fuel predictor alone.
FuelFeedbackFedFuelOnly ==
  /\ req[VoyageCaller].pc = "feedbackFuel"
  /\ ~req[VoyageCaller].body.actualRoute
  /\ req[VoyageCaller].body.actualFuelConsumption
  /\ voyages[req[VoyageCaller].body.voyageId].status = "completed"
  /\ Len(buffer["fuel"]) = 1
  /\ Len(buffer["route"]) = 0

\* The ships of a sequence that are not in a set, in their order.
RECURSIVE Without(_, _)
Without(seq, set) ==
  IF seq = <<>> THEN <<>>
  ELSE (IF Head(seq) \in set THEN <<>> ELSE <<Head(seq)>>)
         \o Without(Tail(seq), set)

====
